---- MODULE Spec2Model ----
(***************************************************************************)
(* Model of the elementwise / linear-algebra operator and differentiation  *)
(* engine: op_math (src/unnamed/part_000), operatorPointwise_binary.go and  *)
(* op_reduction.go.                                                        *)
(*                                                                         *)
(* The library keeps no global state: every operation is a call on values, *)
(* tensors and graph nodes handed in by the caller.  A behaviour of the    *)
(* model is one call: the initial state holds the operation (op), its      *)
(* inputs (args) and the mutable objects it is given (heap: the tensors of *)
(* a linear-algebra or accumulating call, dv: the dual values bound to the *)
(* nodes of a differentiation call), with pc = "call"; the action of the   *)
(* operation runs the whole call, leaves its results in out (returned      *)
(* value, error, panic), the objects as the call left them in heap and dv, *)
(* and pc = "done".  args keeps the objects as they were before the call.  *)
(***************************************************************************)
EXTENDS Integers, Sequences, FiniteSets, TLC

VARIABLES pc, op, args, out, heap, dv

vars == <<pc, op, args, out, heap, dv>>

(***************************************************************************)
(* Bounds of the model.                                                    *)
(***************************************************************************)
\* largest extent of a dimension of the shapes given to shape inference
MaxDim == 4

\* most inputs handed to a unary (reduction) operation
MaxInputs == 2

\* length of the tensors of the elementwise operations
TLen == 2

\* scalars take the values 1..MaxVal
MaxVal == 3

\* a tensor holds consecutive numbers from a first element in 1..MaxBase
MaxBase == 2

\* derivatives start from a value (a first element) in 0..MaxD
MaxD == 1

\* extent of the vectors and matrices of the linear-algebra operations
LDim == 2

\* extent of the axes of the rank-3 inputs of the reductions
RDim == 2

\* largest axis index listed in the along of a reduction
MaxAxis == 3

\* most axes listed in the along of a reduction
MaxAlong == 3

(***************************************************************************)
(* Shapes (types.Shape) and DimSizers.                                     *)
(***************************************************************************)
\* a DimSizer handed to InferShape: a nil interface, a types.Shape that is
\* nil (the shape of a node whose shape is not set), or a types.Shape
NilDimSizer == [isNil |-> TRUE, nilShape |-> FALSE, dims |-> <<>>]

NilShape == [isNil |-> FALSE, nilShape |-> TRUE, dims |-> <<>>]

Shape(s) == [isNil |-> FALSE, nilShape |-> FALSE, dims |-> s]

\* scalarShape = types.ScalarShape(): the empty shape
scalarShape == <<>>

\* types.Shape.IsScalar
IsScalarShape(s) == Len(s) = 0 \/ (Len(s) = 1 /\ s[1] = 1)

\* types.Shape.Eq as op_math uses it on two non-scalar shapes
ShapeEq(s, t) == s = t

\* types.Shape.TotalSize: the product of the extents
RECURSIVE TotalSize(_)
TotalSize(s) == IF Len(s) = 0 THEN 1 ELSE s[1] * TotalSize(Tail(s))

\* transpose(shape) of a matrix shape: the two extents swapped
transpose(s) == IF Len(s) = 2 THEN <<s[2], s[1]>> ELSE s

\* shapes of rank 0, 1 and 2 with extents up to MaxDim
Shapes ==
    {scalarShape} \cup {<<n>> : n \in 1..MaxDim}
                  \cup {<<r, c>> : r \in 1..MaxDim, c \in 1..MaxDim}

DimSizers == {NilDimSizer, NilShape} \cup {Shape(s) : s \in Shapes}

(***************************************************************************)
(* The results of a shape inference: (retVal, err), or a run-time panic.   *)
(***************************************************************************)
ShapeOk(s) == [retVal |-> Shape(s), err |-> "nil", panic |-> FALSE]

\* a nil shape together with an error
ShapeErr(e) == [retVal |-> NilDimSizer, err |-> e, panic |-> FALSE]

\* the call did not return: index out of range
ShapePanic == [retVal |-> NilDimSizer, err |-> "nil", panic |-> TRUE]

(***************************************************************************)
(* elemBinOp.InferShape                                                    *)
(***************************************************************************)
elemBinOpInferShape(in0, in1) ==
    IF in0.isNil \/ in1.isNil
    THEN ShapeErr("nyi")
    ELSE LET x == in0.dims
             y == in1.dims
         IN  CASE IsScalarShape(x) /\ IsScalarShape(y) -> ShapeOk(scalarShape)
               [] IsScalarShape(x) /\ ~IsScalarShape(y) -> ShapeOk(y)
               [] ~IsScalarShape(x) /\ IsScalarShape(y) -> ShapeOk(x)
               \* the branch for unequal shapes is empty: retVal = x either way
               [] ~IsScalarShape(x) /\ ~IsScalarShape(y) ->
                     IF ~ShapeEq(x, y) THEN ShapeOk(x) ELSE ShapeOk(x)

(***************************************************************************)
(* linAlgBinOp.InferShape                                                  *)
(***************************************************************************)
LinAlgKinds == {"matMul", "matVecMul", "vecDot", "outerProd"}

linAlgBinOpInferShape(kind, transA, transB, in0, in1) ==
    IF in0.isNil \/ in1.isNil
    THEN ShapeErr("nyi")
    ELSE IF in0.nilShape \/ in1.nilShape
    THEN ShapeErr("Cannot infer shape")
    ELSE LET x0 == in0.dims
             y0 == in1.dims
         IN  CASE kind = "matMul" ->
                     LET x == IF transA THEN transpose(x0) ELSE x0
                         y == IF transB THEN transpose(y0) ELSE y0
                     IN  IF Len(x) < 1 \/ Len(y) < 2
                         THEN ShapePanic
                         ELSE ShapeOk(<<x[1], y[2]>>)
               [] kind = "matVecMul" ->
                     LET x == IF transA THEN transpose(x0) ELSE x0
                         y == y0
                     IN  IF Len(x) < 1 \/ Len(y) < 1
                         THEN ShapePanic
                         ELSE IF x[1] # y[1] /\ Len(x) < 2
                         THEN ShapePanic
                         ELSE IF x[1] # y[1] /\ x[2] # y[1]
                         THEN ShapeErr("Incompatible shapes")
                         ELSE ShapeOk(<<x[1], 1>>)
               [] kind = "vecDot" -> ShapeOk(scalarShape)
               [] kind = "outerProd" -> ShapeOk(<<TotalSize(x0), TotalSize(y0)>>)

(***************************************************************************)
(* Numbers.  float32/float64 arithmetic is modelled exactly, on rationals  *)
(* <<numerator, denominator>> in lowest terms with a positive denominator;  *)
(* a zero denominator stands for the IEEE results of a division by zero.   *)
(***************************************************************************)
Abs(n) == IF n < 0 THEN -n ELSE n

Sgn(n) == IF n < 0 THEN -1 ELSE IF n > 0 THEN 1 ELSE 0

RECURSIVE GCD(_, _)
GCD(a, b) == IF b = 0 THEN a ELSE GCD(b, a % b)

Norm(n, d) ==
    IF d = 0 THEN <<Sgn(n), 0>>
    ELSE LET g == GCD(Abs(n), Abs(d))
         IN  <<(Sgn(d) * n) \div g, Abs(d) \div g>>

Q(n) == <<n, 1>>

QAdd(a, b) == Norm(a[1] * b[2] + b[1] * a[2], a[2] * b[2])

QSub(a, b) == Norm(a[1] * b[2] - b[1] * a[2], a[2] * b[2])

QMul(a, b) == Norm(a[1] * b[1], a[2] * b[2])

QDiv(a, b) == Norm(a[1] * b[2], a[2] * b[1])

QNeg(a) == <<-a[1], a[2]>>

QLt(a, b) == a[1] * b[2] < b[1] * a[2]

RECURSIVE QPowN(_, _)
QPowN(a, k) == IF k = 0 THEN Q(1) ELSE QMul(a, QPowN(a, k - 1))

\* math.Pow on the exponents the model feeds it: integers
QPow(a, b) ==
    IF b[1] >= 0 THEN QPowN(a, b[1] \div b[2])
    ELSE QDiv(Q(1), QPowN(a, (-b[1]) \div b[2]))

QBool(b) == IF b THEN Q(1) ELSE Q(0)

(***************************************************************************)
(* Dtypes, Values (Scalar, Tensor) and errors.                             *)
(***************************************************************************)
Float64 == "Float64"

Float32 == "Float32"

Bool == "Bool"

FloatDtypes == {Float64, Float32}

\* Scalar{v, t}
Scalar(t, v) == [k |-> "Scalar", t |-> t, shape |-> scalarShape, data |-> <<v>>]

\* Tensor: a dtype, a shape and the elements in row-major order
Tensor(t, shape, data) == [k |-> "Tensor", t |-> t, shape |-> shape, data |-> data]

\* a nil Value
NilValue == [k |-> "nil"]

IsScalarValue(v) == v.k = "Scalar"

IsTensorValue(v) == v.k = "Tensor"

\* Value.Type(): a Dtype for a Scalar, a *TensorType for a Tensor
TypeOf(v) == [tensor |-> IsTensorValue(v), of |-> v.t]

\* error values: nil, a plain error, the reroute-value sentinel noIncrErr{v},
\* and any of them wrapped by errors.Wrap (which hides the Valuer interface)
NilErr == [e |-> "nil", wrapped |-> FALSE, v |-> NilValue]

Error(kind) == [e |-> kind, wrapped |-> FALSE, v |-> NilValue]

noIncrErr(v) == [e |-> "noIncrErr", wrapped |-> FALSE, v |-> v]

Wrap(err) == [err EXCEPT !.wrapped = TRUE]

\* err.(Valuer): only the unwrapped sentinel carries a value
IsValuer(err) == err.e = "noIncrErr" /\ ~err.wrapped

(***************************************************************************)
(* Binary elementwise operators (operatorPointwise_binary.go).             *)
(***************************************************************************)
ArithKinds == {"add", "sub", "mul", "div", "pow"}

CmpKinds == {"lt", "gt", "lte", "gte", "eq", "ne"}

BinOpKinds == ArithKinds \cup CmpKinds

\* ʘBinaryOperatorType.isArith
isArith(kind) == kind \in ArithKinds

\* the switch on the operator type of scalarBinOp.Do, on two numbers; a
\* comparison yields 1 for true and 0 for false
ApplyKind(kind, a, b) ==
    CASE kind = "add" -> QAdd(a, b)
      [] kind = "sub" -> QSub(a, b)
      [] kind = "mul" -> QMul(a, b)
      [] kind = "div" -> QDiv(a, b)
      [] kind = "pow" -> QPow(a, b)
      [] kind = "lt" -> QBool(QLt(a, b))
      [] kind = "gt" -> QBool(QLt(b, a))
      [] kind = "lte" -> QBool(~QLt(b, a))
      [] kind = "gte" -> QBool(~QLt(a, b))
      [] kind = "eq" -> QBool(a = b)
      [] kind = "ne" -> QBool(a # b)

\* the result of a forward call: the returned value and error, the operands
\* and the reuse/accumulator tensor as the call left them
Result(retVal, err, vals, reuse) ==
    [retVal |-> retVal, err |-> err, vals |-> vals, reuse |-> reuse]

\* scalarBinOp{ʘBinaryOperatorType, t}
scalarBinOp(ot, t) == [impl |-> "scalarBinOp", ot |-> ot, t |-> t]

\* tBinOp{ʘBinaryOperatorType, tensorLeft}
tBinOp(ot, tensorLeft) == [impl |-> "tBinOp", ot |-> ot, tensorLeft |-> tensorLeft]

\* scalarBinOp.Do without the check of b's dtype
scalarBinOpDoCoercesB(o, same, vals) ==
    IF Len(vals) # 2
    THEN Result(NilValue, Error("GraphError"), vals, NilValue)
    ELSE IF ~IsScalarValue(vals[1]) \/ ~IsScalarValue(vals[2])
    THEN Result(NilValue, Error("ExpectedScalar"), vals, NilValue)
    ELSE IF vals[1].t # o.t
    THEN Result(NilValue, Error("TypeMismatch"), vals, NilValue)
    ELSE Result(Scalar(IF isArith(o.ot) \/ same THEN o.t ELSE Bool,
                       ApplyKind(o.ot, vals[1].data[1], vals[2].data[1])),
                NilErr, vals, NilValue)

\* scalarBinOp.Do returning every result in the operand dtype
scalarBinOpDoAlwaysSame(o, same, vals) ==
    IF Len(vals) # 2
    THEN Result(NilValue, Error("GraphError"), vals, NilValue)
    ELSE IF ~IsScalarValue(vals[1]) \/ ~IsScalarValue(vals[2])
    THEN Result(NilValue, Error("ExpectedScalar"), vals, NilValue)
    ELSE IF vals[1].t # o.t \/ vals[2].t # o.t
    THEN Result(NilValue, Error("TypeMismatch"), vals, NilValue)
    ELSE Result(Scalar(o.t, ApplyKind(o.ot, vals[1].data[1], vals[2].data[1])),
                NilErr, vals, NilValue)

\* scalarBinOp.Do
scalarBinOpDo(o, same, vals) ==
    IF Len(vals) # 2
    THEN Result(NilValue, Error("GraphError"), vals, NilValue)
    ELSE LET a == vals[1]
             b == vals[2]
         IN  IF ~IsScalarValue(a) \/ ~IsScalarValue(b)
             THEN Result(NilValue, Error("ExpectedScalar"), vals, NilValue)
             ELSE IF a.t # o.t
             THEN Result(NilValue, Error("TypeMismatch"), vals, NilValue)
             ELSE IF b.t # o.t
             THEN Result(NilValue, Error("TypeMismatch"), vals, NilValue)
             ELSE IF o.t \notin FloatDtypes
             THEN Result(NilValue, Error("nyi"), vals, NilValue)
             ELSE Result(Scalar(IF isArith(o.ot) \/ same THEN o.t ELSE Bool,
                                ApplyKind(o.ot, a.data[1], b.data[1])),
                         NilErr, vals, NilValue)

\* the elements of an operand of a tensor kernel, broadcast to n elements
Elems(v, n) == IF IsTensorValue(v) THEN v.data ELSE [i \in 1..n |-> v.data[1]]

\* the tensor reuse after r was added into it
accumulated(reuse, r) ==
    Tensor(reuse.t, r.shape,
           [i \in 1..Len(r.data) |-> QAdd(reuse.data[i], r.data[i])])

\* where a kernel leaves its result r, by the FuncOpt opt handed to it
applyFuncOpt(kind, a, b, opt, reuse, r) ==
    CASE opt = "unsafe" /\ isArith(kind) ->
            IF IsTensorValue(a)
            THEN Result(r, NilErr, <<r, b>>, reuse)
            ELSE Result(r, NilErr, <<a, r>>, reuse)
      [] opt = "incr" /\ isArith(kind) ->
            IF reuse.shape # r.shape
            THEN Result(NilValue, Error("ShapeMismatch"), <<a, b>>, reuse)
            ELSE Result(accumulated(reuse, r), NilErr, <<a, b>>, accumulated(reuse, r))
      [] opt = "reuse" /\ isArith(kind) ->
            IF reuse.shape # r.shape
            THEN Result(NilValue, Error("ShapeMismatch"), <<a, b>>, reuse)
            ELSE Result(r, NilErr, <<a, b>>, r)
      [] OTHER -> Result(r, NilErr, <<a, b>>, reuse)

\* the (dtype, kind) kernels of the tensor packages, tf64BinOps, tf64CmpOps,
\* tf32BinOps and tf32CmpOps, on operands a and b of which at least one is a
\* tensor.  opt is the FuncOpt handed through: "none", "same" (AsSameType),
\* "unsafe" (UseUnsafe: the result overwrites the first tensor operand),
\* "incr" (WithIncr(reuse): the result is added into reuse) or "reuse"
\* (WithReuse(reuse): the result is written into reuse).
tensorKernel(kind, a, b, opt, reuse) ==
    LET shape == IF IsTensorValue(a) THEN a.shape ELSE b.shape
        n == TotalSize(shape)
    IN  IF IsTensorValue(a) /\ IsTensorValue(b) /\ a.shape # b.shape
        THEN Result(NilValue, Error("ShapeMismatch"), <<a, b>>, reuse)
        ELSE applyFuncOpt(
                 kind, a, b, opt, reuse,
                 Tensor(IF isArith(kind) \/ opt = "same" THEN a.t ELSE Bool, shape,
                        [i \in 1..n |-> ApplyKind(kind, Elems(a, n)[i], Elems(b, n)[i])]))

\* what tBinOp.do makes of the return r of the kernel it called: the error
\* wrapped, or the value
kernelReturn(r, vals, reuse) ==
    IF r.err # NilErr THEN Result(NilValue, Wrap(r.err), vals, reuse) ELSE r

\* tBinOp.do
tBinOpdo(o, vals, opt, reuse) ==
    IF Len(vals) # 2
    THEN Result(NilValue, Error("GraphError"), vals, reuse)
    ELSE LET d0 == vals[1].t
             d1 == vals[2].t
         IN  IF d0 # d1
             THEN Result(NilValue, Error("DtypeMismatch"), vals, reuse)
             ELSE IF o.tensorLeft /\ ~IsTensorValue(vals[1])
             THEN Result(NilValue, Error("ExpectedTensor"), vals, reuse)
             ELSE IF ~o.tensorLeft /\ ~IsTensorValue(vals[2])
             THEN Result(NilValue, Error("ExpectedTensor"), vals, reuse)
             ELSE IF d0 \notin FloatDtypes
             THEN Result(NilValue, Error("nyi"), vals, reuse)
             ELSE kernelReturn(tensorKernel(o.ot, vals[1], vals[2], opt, reuse),
                               vals, reuse)

\* tBinOp.Do
tBinOpDo(o, same, vals) ==
    tBinOpdo(o, vals, IF same THEN "same" ELSE "none", NilValue)

\* tBinOp.UnsafeDo
tBinOpUnsafeDo(o, vals) == tBinOpdo(o, vals, "unsafe", NilValue)

(***************************************************************************)
(* elemBinOp (op_math).                                                    *)
(***************************************************************************)
\* newEBOByType: at and bt are Value types, a Dtype or a *TensorType
newEBOByType(ot, at, bt) ==
    [binOp |-> IF at.tensor THEN tBinOp(ot, TRUE)
               ELSE IF bt.tensor THEN tBinOp(ot, FALSE)
               ELSE scalarBinOp(ot, at.of),
     arg0 |-> at, arg1 |-> bt, retSame |-> FALSE]

\* elemBinOp.ReturnsPtr
ReturnsPtr(eop) == eop.arg0.tensor \/ eop.arg1.tensor

\* elemBinOp.Do
elemBinOpDo(eop, vals) ==
    IF eop.binOp.impl = "scalarBinOp"
    THEN scalarBinOpDo(eop.binOp, eop.retSame, vals)
    ELSE tBinOpDo(eop.binOp, eop.retSame, vals)

\* elemBinOp.UnsafeDo
elemBinOpUnsafeDo(eop, vals) ==
    IF ReturnsPtr(eop) /\ eop.binOp.impl = "tBinOp"
    THEN tBinOpUnsafeDo(eop.binOp, vals)
    ELSE elemBinOpDo(eop, vals)

\* the result of an accumulating call: the error, and the accumulator and
\* the operands as the call left them
IncrResult(err, incr, vals) == [err |-> err, incr |-> incr, vals |-> vals]

\* the end of an IncrDo into an accumulator that is not a Tensor, on the
\* return u of the unsafe Add: its error
\* wrapped, or the reroute-value sentinel carrying the sum
reroute(u, vals) ==
    IF u.err # NilErr
    THEN IncrResult(Wrap(u.err), u.vals[1], vals)
    ELSE IncrResult(noIncrErr(u.retVal), u.vals[1], vals)

\* a variant of the tail that hands back the forward result alone, without
\* adding the accumulator to it
addUnsafeAndRerouteDropsSum(incr, r) ==
    IF r.err # NilErr
    THEN IncrResult(Wrap(r.err), incr, r.vals)
    ELSE IncrResult(noIncrErr(r.retVal), incr, r.vals)

\* the tail shared by the three IncrDo methods for an accumulator that is
\* not a Tensor: add the accumulator and the forward result with an unsafe
\* Add, and hand the sum back in the reroute-value sentinel
addUnsafeAndReroute(incr, r) ==
    IF r.err # NilErr
    THEN IncrResult(Wrap(r.err), incr, r.vals)
    ELSE reroute(elemBinOpUnsafeDo(newEBOByType("add", TypeOf(incr), TypeOf(r.retVal)),
                                   <<incr, r.retVal>>),
                 r.vals)

\* _, err = o.do(inputs, types.WithIncr(reuse)): the value is dropped, the
\* accumulator is as the kernel left it
accumulatedInPlace(r) == IncrResult(r.err, r.reuse, r.vals)

\* tBinOp.IncrDo
tBinOpIncrDo(o, incr, vals) ==
    IF IsTensorValue(incr)
    THEN accumulatedInPlace(tBinOpdo(o, vals, "incr", incr))
    ELSE addUnsafeAndReroute(incr, tBinOpdo(o, vals, "none", NilValue))

\* elemBinOp.IncrDo
elemBinOpIncrDo(eop, incr, vals) ==
    IF ~ReturnsPtr(eop)
    THEN addUnsafeAndReroute(incr, elemBinOpDo(eop, vals))
    ELSE tBinOpIncrDo(eop.binOp, incr, vals)

(***************************************************************************)
(* Tensors of the linear-algebra operations.  The operands of a            *)
(* linAlgBinOp are pointers: heap maps a reference to the tensor it points *)
(* to, so that two operands may be the same tensor.  A tensor has a dtype, *)
(* its shape and elements as laid out in memory, the flag tr set while its *)
(* view is transposed, and noT set when T() reports an error on it.        *)
(***************************************************************************)
TObj(t, shape, data, tr, noT) ==
    [t |-> t, shape |-> shape, data |-> data, tr |-> tr, noT |-> noT]

\* a Tensor Value holding the tensor that ref points to
TRef(ref) == [k |-> "TensorRef", ref |-> ref]

IsTRef(v) == v.k = "TensorRef"

\* the shape of the view of a tensor
ViewShape(x) == IF x.tr THEN transpose(x.shape) ELSE x.shape

\* element (i, j) of the view of a matrix, from 1
At2(x, i, j) ==
    IF x.tr THEN x.data[(j - 1) * x.shape[2] + i]
    ELSE x.data[(i - 1) * x.shape[2] + j]

\* the sum over i in 1..n of f[i]
RECURSIVE QSum(_, _)
QSum(f, n) == IF n = 0 THEN Q(0) ELSE QAdd(QSum(f, n - 1), f[n])

\* types.Tensor.T(): fails on a tensor that cannot be transposed, is a no-op
\* on a vector, and otherwise toggles the transposition of the view
\* (reversible by calling it again)
T(h, ref) ==
    IF h[ref].noT THEN [err |-> Error("tFail"), heap |-> h]
    ELSE IF Len(h[ref].shape) < 2 THEN [err |-> NilErr, heap |-> h]
    ELSE [err |-> NilErr, heap |-> [h EXCEPT ![ref].tr = ~h[ref].tr]]

\* the result of a dense primitive: the tensor it returns (NilValue with an
\* error), the error and the heap after it
KernelResult(ret, err, h) == [ret |-> ret, err |-> err, heap |-> h]

\* the FuncOpts handed to a primitive: none, or WithIncr(reuse) /
\* WithReuse(reuse) naming the tensor to accumulate or write into
NoOpts == [opt |-> "none", reuse |-> 0]

WithIncr(ref) == [opt |-> "incr", reuse |-> ref]

WithReuse(ref) == [opt |-> "reuse", reuse |-> ref]

\* the end of a primitive that takes FuncOpts: return a fresh tensor, or add
\* the result into / write it over the tensor the option names
deliver(h, t, shape, data, opts) ==
    IF opts.opt = "none"
    THEN KernelResult(Tensor(t, shape, data), NilErr, h)
    ELSE IF ViewShape(h[opts.reuse]) # shape
    THEN KernelResult(NilValue, Error("ShapeMismatch"), h)
    ELSE LET n == TotalSize(shape)
             new == IF opts.opt = "incr"
                    THEN [i \in 1..n |-> QAdd(h[opts.reuse].data[i], data[i])]
                    ELSE data
         IN  KernelResult(Tensor(h[opts.reuse].t, shape, new), NilErr,
                          [h EXCEPT ![opts.reuse].data = new])

\* tensor.MatMul
MatMul(h, ra, rb, opts) ==
    LET a == h[ra]
        b == h[rb]
        sa == ViewShape(a)
        sb == ViewShape(b)
    IN  IF a.t # b.t \/ Len(sa) # 2 \/ Len(sb) # 2
        THEN KernelResult(NilValue, Error("ShapeMismatch"), h)
        ELSE IF sa[2] # sb[1]
        THEN KernelResult(NilValue, Error("ShapeMismatch"), h)
        ELSE LET k == sa[2]
                 cols == sb[2]
                 data == [x \in 1..(sa[1] * cols) |->
                            LET i == ((x - 1) \div cols) + 1
                                j == ((x - 1) % cols) + 1
                            IN  QSum([l \in 1..k |-> QMul(At2(a, i, l), At2(b, l, j))], k)]
             IN  deliver(h, a.t, <<sa[1], cols>>, data, opts)

\* tensor.MatVecMul
MatVecMul(h, ra, rb, opts) ==
    LET a == h[ra]
        b == h[rb]
        sa == ViewShape(a)
        sb == ViewShape(b)
    IN  IF a.t # b.t \/ Len(sa) # 2 \/ Len(sb) # 1
        THEN KernelResult(NilValue, Error("ShapeMismatch"), h)
        ELSE IF sa[2] # sb[1]
        THEN KernelResult(NilValue, Error("ShapeMismatch"), h)
        ELSE LET k == sa[2]
                 data == [i \in 1..sa[1] |->
                            QSum([l \in 1..k |-> QMul(At2(a, i, l), b.data[l])], k)]
             IN  deliver(h, a.t, <<sa[1]>>, data, opts)

\* tensor.Inner: takes no FuncOpts; the result is a scalar tensor
Inner(h, ra, rb) ==
    LET a == h[ra]
        b == h[rb]
    IN  IF a.t # b.t \/ Len(a.shape) # 1 \/ Len(b.shape) # 1
        THEN KernelResult(NilValue, Error("ShapeMismatch"), h)
        ELSE IF a.shape # b.shape
        THEN KernelResult(NilValue, Error("ShapeMismatch"), h)
        ELSE LET k == a.shape[1]
             IN  KernelResult(
                     Tensor(a.t, scalarShape,
                            <<QSum([l \in 1..k |-> QMul(a.data[l], b.data[l])], k)>>),
                     NilErr, h)

\* tensor.Outer
Outer(h, ra, rb, opts) ==
    LET a == h[ra]
        b == h[rb]
    IN  IF a.t # b.t \/ Len(a.shape) # 1 \/ Len(b.shape) # 1
        THEN KernelResult(NilValue, Error("ShapeMismatch"), h)
        ELSE LET cols == b.shape[1]
                 data == [x \in 1..(a.shape[1] * cols) |->
                            QMul(a.data[((x - 1) \div cols) + 1],
                                 b.data[((x - 1) % cols) + 1])]
             IN  deliver(h, a.t, <<a.shape[1], cols>>, data, opts)

(***************************************************************************)
(* linAlgBinOp (op_math).                                                  *)
(***************************************************************************)
\* linAlgBinOp{āBinaryOperator, transA, transB}
linAlgBinOp(kind, transA, transB) ==
    [kind |-> kind, transA |-> transA, transB |-> transB]

\* the result of linAlgBinOp.do: (retVal, err) or a panic, and the heap
DoResult(retVal, err, panic, h) ==
    [retVal |-> retVal, err |-> err, panic |-> panic, heap |-> h]

\* a variant of the deferred calls that runs only the one deferred last and
\* leaves the first operand as the call transposed it
runDeferredLastOnly(h, deferred) ==
    IF Len(deferred) >= 2 THEN T(h, deferred[2]).heap ELSE h

\* the deferred a.Tensor.T() / b.Tensor.T() calls, run last-in first-out on
\* every way out of linAlgBinOp.do; their errors are dropped
runDeferred(h, deferred) ==
    LET h1 == IF Len(deferred) >= 2 THEN T(h, deferred[2]).heap ELSE h
    IN  IF Len(deferred) >= 1 THEN T(h1, deferred[1]).heap ELSE h1

\* the end of linAlgBinOp.do on the return r of MatMul, MatVecMul or Outer:
\* the tensor as a Value, or the error wrapped
anyToValueOrWrap(r) ==
    IF r.err = NilErr THEN DoResult(r.ret, NilErr, FALSE, r.heap)
    ELSE DoResult(NilValue, Wrap(r.err), FALSE, r.heap)

\* the end of linAlgBinOp.do on the return r of Inner: ret.ScalarValue() is
\* called before err is looked at, and aborts on a nil tensor
scalarValueOrWrap(r) ==
    IF r.ret = NilValue THEN DoResult(NilValue, NilErr, TRUE, r.heap)
    ELSE IF r.err = NilErr
    THEN DoResult(Scalar(r.ret.t, r.ret.data[1]), NilErr, FALSE, r.heap)
    ELSE DoResult(NilValue, Wrap(r.err), FALSE, r.heap)

\* the dispatch of linAlgBinOp.do on the operator, and what follows it
dispatch(lop, h, ra, rb, opts) ==
    CASE lop.kind = "matMul" -> anyToValueOrWrap(MatMul(h, ra, rb, opts))
      [] lop.kind = "matVecMul" -> anyToValueOrWrap(MatVecMul(h, ra, rb, opts))
      \* the options are not handed to Inner
      [] lop.kind = "vecDot" -> scalarValueOrWrap(Inner(h, ra, rb))
      [] lop.kind = "outerProd" -> anyToValueOrWrap(Outer(h, ra, rb, opts))

\* the way out of linAlgBinOp.do with the return r of the dispatch: the
\* deferred calls run
leave(r, deferred) ==
    DoResult(r.retVal, r.err, r.panic, runDeferred(r.heap, deferred))

\* linAlgBinOp.do from the return tb of the transposition of b on: da are
\* the calls deferred before it
transposedB(lop, ra, rb, opts, da, tb) ==
    IF tb.err # NilErr
    THEN DoResult(NilValue, Wrap(tb.err), FALSE, runDeferred(tb.heap, da))
    ELSE leave(dispatch(lop, tb.heap, ra, rb, opts),
               IF lop.transB THEN da \o <<rb>> ELSE da)

\* linAlgBinOp.do from the return ta of the transposition of a on
transposedA(lop, ra, rb, opts, ta) ==
    IF ta.err # NilErr
    THEN DoResult(NilValue, Wrap(ta.err), FALSE, ta.heap)
    ELSE transposedB(lop, ra, rb, opts,
                     IF lop.transA THEN <<ra>> ELSE <<>>,
                     IF lop.transB THEN T(ta.heap, rb)
                     ELSE [err |-> NilErr, heap |-> ta.heap])

\* linAlgBinOp.do: inputs are references to tensors of the heap h
linAlgBinOpdo(lop, h, inputs, opts) ==
    IF Len(inputs) # 2
    THEN DoResult(NilValue, Error("ArityMismatch"), FALSE, h)
    ELSE transposedA(lop, inputs[1].ref, inputs[2].ref, opts,
                     IF lop.transA THEN T(h, inputs[1].ref)
                     ELSE [err |-> NilErr, heap |-> h])

\* linAlgBinOp.UsePreallocDo: the result is written into the tensor that
\* prealloc refers to
linAlgBinOpUsePreallocDo(lop, h, prealloc, inputs) ==
    IF ~IsTRef(prealloc)
    THEN DoResult(NilValue, Error("ExpectedTensor"), FALSE, h)
    ELSE linAlgBinOpdo(lop, h, inputs, WithReuse(prealloc.ref))

\* the result of linAlgBinOp.IncrDo: the error or a panic, the accumulator
\* as the call left it (a Scalar, or the reference it was given) and the heap
LinIncrResult(err, panic, incr, h) ==
    [err |-> err, panic |-> panic, incr |-> incr, heap |-> h]

\* _, err = op.do(inputs, types.WithIncr(reuse)); return
accumulatedByKernel(r, incr) == LinIncrResult(r.err, r.panic, incr, r.heap)

\* the return s of the shared tail of IncrDo, with the heap h
rerouted(s, h) == LinIncrResult(s.err, FALSE, s.incr, h)

\* linAlgBinOp.IncrDo into an accumulator that is not a Tensor, from the
\* return r of op.do(inputs) on
addToScalar(r, incr, inputs) ==
    IF r.panic
    THEN LinIncrResult(NilErr, TRUE, incr, r.heap)
    ELSE rerouted(addUnsafeAndReroute(incr, Result(r.retVal, r.err, inputs, NilValue)),
                  r.heap)

\* linAlgBinOp.IncrDo
linAlgBinOpIncrDo(lop, h, incr, inputs) ==
    IF IsTRef(incr)
    THEN accumulatedByKernel(linAlgBinOpdo(lop, h, inputs, WithIncr(incr.ref)), incr)
    ELSE addToScalar(linAlgBinOpdo(lop, h, inputs, NoOpts), incr, inputs)

(***************************************************************************)
(* Dual values and the numeric backward functions                          *)
(* (operatorPointwise_binary.go).  d maps a node to the dualValue bound to *)
(* it: its primal Value and its derivative d.  x, y and z are nodes; x and *)
(* y may be the same node.                                                 *)
(***************************************************************************)
dualValue(value, deriv) == [Value |-> value, d |-> deriv]

\* dualValue.SetDeriv: the derivative is replaced; the backward functions
\* drop the error of its sanity check
SetDeriv(d, n, v) == [d EXCEPT ![n].d = v]

\* Node.IsScalar
NodeIsScalar(d, n) == IsScalarValue(d[n].Value)

\* the pruned type of a node, prune(n.t)
NodeType(d, n) == TypeOf(d[n].Value)

\* newElemBinOp
newElemBinOp(ot, d, a, b) == newEBOByType(ot, NodeType(d, a), NodeType(d, b))

\* the result of a backward function: its error and the dual values after it
DiffResult(err, d) == [err |-> err, dv |-> d]

\* the handling of the return r of op.IncrDo on the derivative of node n:
\* return on a genuine error, store the value the sentinel carries
storeRerouted(d, n, r) ==
    IF r.err = NilErr
    THEN [stop |-> FALSE, err |-> NilErr, dv |-> [d EXCEPT ![n].d = r.incr]]
    ELSE IF ~IsValuer(r.err)
    THEN [stop |-> TRUE, err |-> r.err, dv |-> [d EXCEPT ![n].d = r.incr]]
    ELSE [stop |-> FALSE, err |-> r.err, dv |-> SetDeriv(d, n, r.err.v)]

\* err = op.IncrDo(acc.d, ...) of the backward functions on the derivative of
\* node n, and the handling of the reroute-value sentinel that follows it:
\* stop says that the function returns err here
incrDeriv(d, n, eop, vals) == storeRerouted(d, n, elemBinOpIncrDo(eop, d[n].d, vals))

\* the dual values after a call on the derivatives of n and z that returned
\* r: an unsafe call leaves its result in its first tensor operand
operandsAfter(d, n, z, r) ==
    IF n = z THEN [d EXCEPT ![n].d = r.vals[2]]
    ELSE [d EXCEPT ![n].d = r.vals[1], ![z].d = r.vals[2]]

\* the handling of the return r of add.Do / add.UnsafeDo in addDiff and
\* subDiff: return the error wrapped, or store the value where the operation
\* did not leave it in place
storeCombined(d, n, z, eop, r) ==
    IF r.err # NilErr
    THEN [stop |-> TRUE, err |-> Wrap(r.err), dv |-> operandsAfter(d, n, z, r)]
    ELSE IF ~ReturnsPtr(eop) \/ NodeIsScalar(d, n)
    THEN [stop |-> FALSE, err |-> NilErr,
          dv |-> SetDeriv(operandsAfter(d, n, z, r), n, r.retVal)]
    ELSE [stop |-> FALSE, err |-> NilErr, dv |-> operandsAfter(d, n, z, r)]

\* one half of addDiff and subDiff: the derivative of node n combined with
\* the derivative of z by the operation eop, safely for a scalar node and in
\* place otherwise
combineDeriv(d, n, z, eop) ==
    storeCombined(d, n, z, eop,
                  IF NodeIsScalar(d, n)
                  THEN elemBinOpDo(eop, <<d[n].d, d[z].d>>)
                  ELSE elemBinOpUnsafeDo(eop, <<d[n].d, d[z].d>>))

\* the end of a backward function on its last step s: the error on which
\* the step stopped, or nil
lastStep(s) == IF s.stop THEN DiffResult(s.err, s.dv) ELSE DiffResult(NilErr, s.dv)

\* addDiff from the step s1 on the derivative of x on
addDiffY(s1, y, z) ==
    IF s1.stop THEN DiffResult(s1.err, s1.dv)
    ELSE lastStep(combineDeriv(s1.dv, y, z, newElemBinOp("add", s1.dv, y, z)))

\* addDiff
addDiff(d, x, y, z) ==
    addDiffY(combineDeriv(d, x, z, newElemBinOp("add", d, x, z)), y, z)

\* a variant of subDiff that adds the output derivative to that of y
subDiffAsAdd(d, x, y, z) == addDiff(d, x, y, z)

\* subDiff from the step s1 on the derivative of y on
subDiffX(s1, x, z) ==
    IF s1.stop THEN DiffResult(s1.err, s1.dv)
    ELSE lastStep(combineDeriv(s1.dv, x, z, newElemBinOp("add", s1.dv, x, z)))

\* subDiff
subDiff(d, x, y, z) ==
    subDiffX(combineDeriv(d, y, z, newElemBinOp("sub", d, y, z)), x, z)

\* hadamardProdDiff from the step s1 on the derivative of x on (dzdy)
hadamardProdDiffY(s1, x, y, z, zdvdType) ==
    IF s1.stop THEN DiffResult(s1.err, s1.dv)
    ELSE lastStep(incrDeriv(s1.dv, y,
                            newEBOByType("mul", TypeOf(s1.dv[x].Value), zdvdType),
                            <<s1.dv[x].Value, s1.dv[z].d>>))

\* a variant of hadamardProdDiff that returns whatever error the first
\* IncrDo gives, the reroute-value sentinel included, without storing it
hadamardProdDiffReturnsSentinel(d, x, y, z) ==
    LET r == elemBinOpIncrDo(newEBOByType("mul", TypeOf(d[y].Value), TypeOf(d[z].d)),
                             d[x].d, <<d[y].Value, d[z].d>>)
    IN  IF r.err # NilErr THEN DiffResult(r.err, d)
        ELSE DiffResult(NilErr, [d EXCEPT ![x].d = r.incr])

\* a variant of hadamardProdDiff that multiplies the output derivative by
\* each input's own value instead of the other input's
hadamardProdDiffOwnValue(d, x, y, z) ==
    hadamardProdDiffY(
        incrDeriv(d, x, newEBOByType("mul", TypeOf(d[x].Value), TypeOf(d[z].d)),
                  <<d[x].Value, d[z].d>>),
        y, y, z, TypeOf(d[z].d))

\* hadamardProdDiff
hadamardProdDiff(d, x, y, z) ==
    hadamardProdDiffY(
        incrDeriv(d, x, newEBOByType("mul", TypeOf(d[y].Value), TypeOf(d[z].d)),
                  <<d[y].Value, d[z].d>>),
        x, y, z, TypeOf(d[z].d))

\* a variant of hadamardDivDiff that accumulates the gradients of a product
hadamardDivDiffAsProd(d, x, y, z) == hadamardProdDiff(d, x, y, z)

\* elemUnaryOp.Do of the negation built by newElemUnaryOp(negOpType, y)
negDo(v) ==
    IF v.t \notin FloatDtypes
    THEN Result(NilValue, Error("nyi"), <<v>>, NilValue)
    ELSE Result([v EXCEPT !.data = [i \in 1..Len(v.data) |-> QNeg(v.data[i])]],
                NilErr, <<v>>, NilValue)

\* hadamardDivDiff from the return ng of neg.Do on
negated(d1, y, z, ng) ==
    IF ng.err # NilErr THEN DiffResult(Wrap(ng.err), d1)
    ELSE lastStep(incrDeriv(d1, y, newElemBinOp("mul", d1, z, y),
                            <<d1[z].d, ng.retVal>>))

\* hadamardDivDiff from the return q of div.Do(zdv.Value, ydv.Value) on
divided(d1, y, z, q) ==
    IF q.err # NilErr THEN DiffResult(Wrap(q.err), d1)
    ELSE negated(d1, y, z, negDo(q.retVal))

\* hadamardDivDiff from the step s1 on the derivative of x on (dzdy)
hadamardDivDiffY(s1, y, z, div) ==
    IF s1.stop THEN DiffResult(s1.err, s1.dv)
    ELSE divided(s1.dv, y, z, elemBinOpDo(div, <<s1.dv[z].Value, s1.dv[y].Value>>))

\* hadamardDivDiff
hadamardDivDiff(d, x, y, z) ==
    hadamardDivDiffY(
        incrDeriv(d, x, newEBOByType("div", TypeOf(d[z].d), TypeOf(d[y].Value)),
                  <<d[z].d, d[y].Value>>),
        y, z, newEBOByType("div", TypeOf(d[z].d), TypeOf(d[y].Value)))

\* a variant of hadamardPowDiff that accumulates the gradients of a product
hadamardPowDiffAsProd(d, x, y, z) == hadamardProdDiff(d, x, y, z)

\* hadamardPowDiff
hadamardPowDiff(d, x, y, z) == DiffResult(Error("not yet implemented"), d)

\* nondiffBinOp
nondiffBinOp(d, x, y, z) == DiffResult(Error("Non differentiable"), d)

\* ʘBinOpDiffFns[b](x, y, z)
BinOpDiffFn(kind, d, x, y, z) ==
    CASE kind = "add" -> addDiff(d, x, y, z)
      [] kind = "sub" -> subDiff(d, x, y, z)
      [] kind = "mul" -> hadamardProdDiff(d, x, y, z)
      [] kind = "div" -> hadamardDivDiff(d, x, y, z)
      [] kind = "pow" -> hadamardPowDiff(d, x, y, z)
      [] OTHER -> nondiffBinOp(d, x, y, z)

\* tensor.Sum of a whole tensor, as the Scalar anyToValue makes of it
sumToScalar(v) == Scalar(v.t, QSum(v.data, Len(v.data)))

\* a variant of the loop that leaves every derivative as the backward
\* function left it
scalarGradientsSkipped(d, inputs, i) == d

\* the loop of elemBinOp.DoDiff over the inputs: a derivative that is not a
\* Scalar although its input is scalar is replaced by the sum of its elements
RECURSIVE scalarGradients(_, _, _)
scalarGradients(d, inputs, i) ==
    IF i > Len(inputs) THEN d
    ELSE LET n == inputs[i]
         IN  IF NodeIsScalar(d, n) /\ ~IsScalarValue(d[n].d)
             THEN scalarGradients(SetDeriv(d, n, sumToScalar(d[n].d)), inputs, i + 1)
             ELSE scalarGradients(d, inputs, i + 1)

\* elemBinOp.DoDiff from the return r of the backward function on
differentiated(r, inputs) ==
    IF r.err # NilErr THEN DiffResult(Wrap(r.err), r.dv)
    ELSE DiffResult(NilErr, scalarGradients(r.dv, inputs, 1))

\* elemBinOp.DoDiff
elemBinOpDoDiff(kind, d, inputs, output) ==
    IF Len(inputs) # 2
    THEN DiffResult(Error("ArityMismatch"), d)
    ELSE differentiated(BinOpDiffFn(kind, d, inputs[1], inputs[2], output), inputs)

(***************************************************************************)
(* maxOp (op_reduction.go).  Graph nodes are terms: an input node carries  *)
(* its shape, Broadcast builds a node from an operator, two nodes and a    *)
(* broadcast pattern, or fails.                                            *)
(***************************************************************************)
NilNode == [node |-> "nil"]

InputNode(name, shape) == [node |-> name, shape |-> shape]

\* Broadcast(kind, a, b, pattern) when graph building succeeds
BroadcastNode(kind, a, b, pattern) ==
    [node |-> "broadcast", kind |-> kind, a |-> a, b |-> b, pattern |-> pattern]

\* leftAxes of maxOp.SymDiff: the axes of the input listed in op.along
RECURSIVE leftAxes(_, _, _)
leftAxes(i, opDim, along) ==
    IF i >= opDim THEN <<>>
    ELSE (IF \E j \in 1..Len(along) : along[j] = i THEN <<i>> ELSE <<>>)
         \o leftAxes(i + 1, opDim, along)

\* a forward evaluation that hands its single input back as the maximum
maxOpDoReturnsInput(inputs) ==
    IF Len(inputs) # 1
    THEN [retVal |-> NilValue, err |-> Error("GraphError"), panic |-> FALSE]
    ELSE [retVal |-> inputs[1], err |-> NilErr, panic |-> FALSE]

\* maxOp.Do: (retVal, err)
maxOpDo(inputs) ==
    IF Len(inputs) # 1
    THEN [retVal |-> NilValue, err |-> Error("GraphError"), panic |-> FALSE]
    ELSE [retVal |-> NilValue, err |-> Error("NotYetImplemented"), panic |-> FALSE]

\* maxOp.SymDiff: (retVal, err), or a panic.  eqOK and mulOK say whether the
\* two Broadcast calls succeed.  retVal is the nil named result when
\* retVal[0] is assigned, so the assignment is out of range.
maxOpSymDiff(along, inputs, output, gradNode, eqOK, mulOK) ==
    IF Len(inputs) # 1
    THEN [retVal |-> <<>>, err |-> Error("GraphError"), panic |-> FALSE]
    ELSE LET t == inputs[1]
             bcpat == leftAxes(0, Len(t.shape), along)
             eq == BroadcastNode("eq", output, t, bcpat)
             retVal == <<>>
         IN  IF ~eqOK
             THEN [retVal |-> <<>>, err |-> Wrap(Error("Broadcast")), panic |-> FALSE]
             ELSE IF Len(retVal) < 1
             THEN [retVal |-> <<>>, err |-> NilErr, panic |-> TRUE]
             ELSE IF ~mulOK
             THEN [retVal |-> <<>>, err |-> Wrap(Error("Broadcast")), panic |-> FALSE]
             ELSE [retVal |-> <<BroadcastNode("mul", gradNode, eq, bcpat)>>,
                   err |-> NilErr, panic |-> FALSE]

(***************************************************************************)
(* elemBinOp.SymDiff (op_math) and the gradient expressions                *)
(* (operatorPointwise_binary.go).  ok says, for each graph-building        *)
(* function (HadamardProd, HadamardDiv, Neg, Sum), whether its calls        *)
(* succeed.                                                                *)
(***************************************************************************)
\* the node a successful graph-building call makes of its operands; its
\* shape follows the elementwise rule, and Sum gives a scalar
ApplyNode(kind, children) ==
    [node |-> "apply", kind |-> kind, children |-> children,
     shape |-> IF kind = "sum" THEN scalarShape
               ELSE IF Len(children) = 2 /\ IsScalarShape(children[1].shape)
               THEN children[2].shape
               ELSE children[1].shape]

\* Node.setGroup(gradClust) / WithGroupName(gradClust): the node with its
\* group set to the gradient cluster
setGroup(n) ==
    [f \in DOMAIN n \cup {"group"} |-> IF f = "group" THEN "gradClust" ELSE n[f]]

\* (retVal Nodes, err error) of the gradient expressions and of SymDiff
SymResult(retVal, err) == [retVal |-> retVal, err |-> err]

\* addDiffExpr
addDiffExpr(x, y, z, gradZ) == SymResult(<<gradZ, gradZ>>, NilErr)

\* subDiffExpr
subDiffExpr(x, y, z, gradZ, ok) ==
    IF ok.neg THEN SymResult(<<gradZ, setGroup(ApplyNode("neg", <<gradZ>>))>>, NilErr)
    ELSE SymResult(<<>>, Wrap(Error("Neg")))

\* hadamardProdDiffExpr
hadamardProdDiffExpr(x, y, z, gradZ, ok) ==
    IF ok.prod
    THEN SymResult(<<setGroup(ApplyNode("mul", <<y, gradZ>>)),
                     setGroup(ApplyNode("mul", <<x, gradZ>>))>>, NilErr)
    ELSE SymResult(<<>>, Wrap(Error("HadamardProd")))

\* hadamardDivDiffExpr
hadamardDivDiffExpr(x, y, z, gradZ, ok) ==
    IF ~ok.div THEN SymResult(<<>>, Wrap(Error("HadamardDiv")))
    ELSE IF ~ok.neg THEN SymResult(<<>>, Wrap(Error("Neg")))
    ELSE IF ~ok.prod THEN SymResult(<<>>, Wrap(Error("HadamardProd")))
    ELSE SymResult(
             <<setGroup(ApplyNode("div", <<gradZ, y>>)),
               setGroup(ApplyNode("mul",
                   <<setGroup(ApplyNode("neg", <<setGroup(ApplyNode("div", <<z, y>>))>>)),
                     gradZ>>))>>,
             NilErr)

\* hadamardPowDiffExpr
hadamardPowDiffExpr(x, y, z, grad) ==
    SymResult(<<>>, Error("hadamardPowDiffExpr not yet implemented"))

\* nondiffBinOpExpr
nondiffBinOpExpr(x, y, z, grad) == SymResult(<<>>, Error("Nondifferentiable"))

\* ʘBinOpDiffExprs[b](x, y, z, gradZ)
BinOpDiffExpr(kind, x, y, z, gradZ, ok) ==
    CASE kind = "add" -> addDiffExpr(x, y, z, gradZ)
      [] kind = "sub" -> subDiffExpr(x, y, z, gradZ, ok)
      [] kind = "mul" -> hadamardProdDiffExpr(x, y, z, gradZ, ok)
      [] kind = "div" -> hadamardDivDiffExpr(x, y, z, gradZ, ok)
      [] kind = "pow" -> hadamardPowDiffExpr(x, y, z, gradZ)
      [] OTHER -> nondiffBinOpExpr(x, y, z, gradZ)

\* the loop of elemBinOp.SymDiff over the gradients from the i-th on: a
\* gradient that is not scalar for a scalar input is replaced by its Sum;
\* when Sum fails the loop returns with the nil node in its place
RECURSIVE sumScalarGradients(_, _, _, _, _)
sumScalarGradients(retVal, err, inputs, i, ok) ==
    IF i > Len(retVal) THEN SymResult(retVal, err)
    ELSE IF IsScalarShape(inputs[i].shape) /\ ~IsScalarShape(retVal[i].shape)
    THEN IF ok.sum
         THEN sumScalarGradients([retVal EXCEPT ![i] = ApplyNode("sum", <<retVal[i]>>)],
                                 NilErr, inputs, i + 1, ok)
         ELSE SymResult([retVal EXCEPT ![i] = NilNode], Wrap(Error("Sum")))
    ELSE sumScalarGradients(retVal, err, inputs, i + 1, ok)

\* elemBinOp.SymDiff from the return r of the gradient expression on
symDiffGradients(r, inputs, ok) ==
    sumScalarGradients(IF r.err = NilErr
                       THEN [i \in 1..Len(r.retVal) |-> setGroup(r.retVal[i])]
                       ELSE r.retVal,
                       r.err, inputs, 1, ok)

\* elemBinOp.SymDiff
elemBinOpSymDiff(kind, inputs, output, gradNode, ok) ==
    IF Len(inputs) # 2
    THEN SymResult(<<>>, Error("ArityMismatch"))
    ELSE symDiffGradients(
             BinOpDiffExpr(kind, inputs[1], inputs[2], output, gradNode, ok), inputs, ok)

(***************************************************************************)
(* Shapes of the reductions (op_reduction.go).                             *)
(***************************************************************************)
\* oneone: the shape (1, 1)
oneone == <<1, 1>>

\* types.IsMonotonicInts: whether a never decreases, and whether each of its
\* elements is its predecessor plus one
IsMonotonicInts(a) ==
    [monotonic |-> \A i \in 2..Len(a) : a[i] >= a[i - 1],
     incr1 |-> \A i \in 2..Len(a) : a[i] = a[i - 1] + 1]

\* Node.IsVector() && !Node.IsRowVec() && !Node.IsColVec(): a shape of one
\* extent
IsPlainVector(s) == Len(s) = 1

\* the result of a reduction's shape inference, with the shape of the input
\* node as the call left it
ReduceShape(r, in) == [retVal |-> r.retVal, err |-> r.err, in |-> in]

\* the loop of sumOp.inferShape over op.along from its i-th axis, on the
\* clone shape
RECURSIVE collapseAlong(_, _, _)
collapseAlong(shape, along, i) ==
    IF i > Len(along)
    THEN ShapeOk(IF ShapeEq(oneone, shape) THEN scalarShape ELSE shape)
    ELSE IF along[i] >= Len(shape)
    THEN ShapeErr("AxisOutOfRange")
    ELSE collapseAlong([shape EXCEPT ![along[i] + 1] = 1], along, i + 1)

\* sumOp.inferShape; the default case works on a clone of the input's shape
sumOpInferShape(along, inputs) ==
    IF Len(inputs) # 1
    THEN ReduceShape(ShapeErr("GraphError"), <<>>)
    ELSE LET in == inputs[1].shape
         IN  CASE IsScalarShape(in) -> ReduceShape(ShapeOk(scalarShape), in)
               [] ~IsScalarShape(in) /\ IsPlainVector(in) ->
                     IF Len(along) > 1 \/ (Len(along) = 1 /\ along[1] # 0)
                     THEN ReduceShape(ShapeErr("ShapeMismatch"), in)
                     ELSE ReduceShape(ShapeOk(scalarShape), in)
               [] OTHER ->
                     IF Len(along) > Len(in)
                     THEN ReduceShape(ShapeErr("ShapeMismatch"), in)
                     ELSE IF /\ IsMonotonicInts(along).monotonic
                             /\ IsMonotonicInts(along).incr1
                             /\ Len(along) = Len(in)
                     THEN ReduceShape(ShapeOk(scalarShape), in)
                     ELSE ReduceShape(collapseAlong(in, along, 1), in)

\* maxOp.inferShape
maxOpInferShape(along, inputs) ==
    ReduceShape(ShapeOk(scalarShape), IF Len(inputs) = 1 THEN inputs[1].shape ELSE <<>>)

(***************************************************************************)
(* sumOp.DoDiff (op_reduction.go).                                         *)
(***************************************************************************)
\* the return of tensor.Repeat: a tensor, or an error
Repeated(ten, err) == [ten |-> ten, err |-> err]

\* the tensor of shape shape whose k-th element is element from[k] of the tensor ten
gather(ten, shape, from) ==
    Tensor(ten.t, shape, [k \in 1..TotalSize(shape) |-> ten.data[from[k]]])

\* tensor.Repeat(T, axis, n): each element along the axis is repeated n times
\* in a row.  A scalar becomes a vector of n elements (a row vector for axis
\* 1), and a vector repeated along axis 1 becomes a matrix of n columns.
Repeat(ten, axis, n) ==
    CASE IsScalarShape(ten.shape) ->
            Repeated(gather(ten, IF axis = 1 THEN <<1, n>> ELSE <<n>>, [k \in 1..n |-> 1]),
                     NilErr)
      [] ~IsScalarShape(ten.shape) /\ Len(ten.shape) = 1 /\ axis = 1 ->
            Repeated(gather(ten, <<ten.shape[1], n>>,
                            [k \in 1..(ten.shape[1] * n) |-> ((k - 1) \div n) + 1]),
                     NilErr)
      [] ~IsScalarShape(ten.shape) /\ Len(ten.shape) = 1 /\ axis = 0 ->
            Repeated(gather(ten, <<ten.shape[1] * n>>,
                            [k \in 1..(ten.shape[1] * n) |-> ((k - 1) \div n) + 1]),
                     NilErr)
      [] Len(ten.shape) = 2 /\ axis = 0 ->
            Repeated(gather(ten, <<ten.shape[1] * n, ten.shape[2]>>,
                            [k \in 1..(ten.shape[1] * n * ten.shape[2]) |->
                                (((k - 1) \div ten.shape[2]) \div n) * ten.shape[2]
                                    + ((k - 1) % ten.shape[2]) + 1]),
                     NilErr)
      [] Len(ten.shape) = 2 /\ axis = 1 ->
            Repeated(gather(ten, <<ten.shape[1], ten.shape[2] * n>>,
                            [k \in 1..(ten.shape[1] * ten.shape[2] * n) |->
                                ((k - 1) \div (ten.shape[2] * n)) * ten.shape[2]
                                    + (((k - 1) % (ten.shape[2] * n)) \div n) + 1]),
                     NilErr)
      [] OTHER -> Repeated(ten, Error("RepeatAxis"))

\* the loop of sumOp.DoDiff over op.along from its i-th axis: rep is the
\* gradient repeated so far
RECURSIVE repeatAlong(_, _, _, _)
repeatAlong(rep, along, xShape, i) ==
    IF i > Len(along) \/ rep.err # NilErr THEN rep
    ELSE IF xShape[along[i] + 1] = 1
    THEN repeatAlong(rep, along, xShape, i + 1)
    ELSE repeatAlong(Repeat(rep.ten, along[i], xShape[along[i] + 1]), along, xShape, i + 1)

\* sumOp.DoDiff from the return r of add.UnsafeDo(xdv.d, val) on
sumAdded(d, x, r) ==
    IF r.err # NilErr
    THEN DiffResult(Wrap(r.err), [d EXCEPT ![x].d = r.vals[1]])
    ELSE IF IsScalarValue(d[x].d)
    THEN DiffResult(NilErr, SetDeriv(d, x, r.retVal))
    ELSE DiffResult(NilErr, [d EXCEPT ![x].d = r.vals[1]])

\* sumOp.DoDiff from the value val to add on
sumAdd(d, x, val) ==
    sumAdded(d, x,
             elemBinOpUnsafeDo(newEBOByType("add", TypeOf(d[x].d), TypeOf(val)),
                               <<d[x].d, val>>))

\* sumOp.DoDiff from the repeated gradient rep on
sumRepeated(d, x, rep) ==
    IF rep.err # NilErr THEN DiffResult(Wrap(rep.err), d) ELSE sumAdd(d, x, rep.ten)

\* sumOp.DoDiff from the tensor of the output derivative on
sumFromT(along, d, x, output, ten) ==
    IF ~ShapeEq(ten.shape, d[x].d.shape)
    THEN sumRepeated(d, x, repeatAlong(Repeated(ten, NilErr), along, d[x].Value.shape, 1))
    ELSE sumAdd(d, x, d[output].d)

\* sumOp.DoDiff
sumOpDoDiff(along, d, inputs, output) ==
    IF Len(inputs) # 1
    THEN DiffResult(Error("GraphError"), d)
    ELSE IF IsScalarValue(d[output].d) /\ d[output].d.t \notin FloatDtypes
    THEN DiffResult(Error("nyi"), d)
    ELSE sumFromT(along, d, inputs[1], output,
                  IF IsScalarValue(d[output].d)
                  THEN Tensor(d[output].d.t, scalarShape, d[output].d.data)
                  ELSE d[output].d)

(***************************************************************************)
(* Actions: the shape inferences.                                          *)
(***************************************************************************)
NoCall == [none |-> TRUE]

\* the state before the call op(args) on the objects h and d
Calling(name, a, h, d) ==
    /\ pc = "call"
    /\ op = name
    /\ args = a
    /\ out = NoCall
    /\ heap = h
    /\ dv = d

\* the call named name has returned (or panicked)
Done(name) == pc = "done" /\ op = name

InitShape ==
    \/ \E in0 \in DimSizers, in1 \in DimSizers :
          Calling("elemBinOp.InferShape", [in0 |-> in0, in1 |-> in1], <<>>, <<>>)
    \/ \E kind \in LinAlgKinds, transA \in BOOLEAN, transB \in BOOLEAN,
          in0 \in DimSizers, in1 \in DimSizers :
          Calling("linAlgBinOp.InferShape",
                  [kind |-> kind, transA |-> transA, transB |-> transB,
                   in0 |-> in0, in1 |-> in1], <<>>, <<>>)

ElemInferShape ==
    /\ pc = "call" /\ op = "elemBinOp.InferShape"
    /\ out' = elemBinOpInferShape(args.in0, args.in1)
    /\ pc' = "done"
    /\ UNCHANGED <<op, args, heap, dv>>

LinAlgInferShape ==
    /\ pc = "call" /\ op = "linAlgBinOp.InferShape"
    /\ out' = linAlgBinOpInferShape(args.kind, args.transA, args.transB,
                                    args.in0, args.in1)
    /\ pc' = "done"
    /\ UNCHANGED <<op, args, heap, dv>>

NextShape == ElemInferShape \/ LinAlgInferShape

SpecShape == InitShape /\ [][NextShape]_vars

(***************************************************************************)
(* Claims on shape inference.                                              *)
(***************************************************************************)
\* C1: elemBinOp.InferShape on two non-scalar shapes that are not equal
\* returns a shape-mismatch error and no shape; it returns the common shape
\* only when the two tensor shapes are equal.
C1_MismatchIsError ==
    (/\ Done("elemBinOp.InferShape")
     /\ ~args.in0.isNil /\ ~args.in1.isNil
     /\ ~IsScalarShape(args.in0.dims) /\ ~IsScalarShape(args.in1.dims))
    => /\ ~out.panic
       /\ (args.in0.dims # args.in1.dims
             => out.err # "nil" /\ out.retVal = NilDimSizer)
       /\ (args.in0.dims = args.in1.dims
             => out.err = "nil" /\ out.retVal = Shape(args.in0.dims))

\* C8: linAlgBinOp.InferShape for MatVecMul on a matrix and a vector returns
\* [rowsA, 1] (rows after applying transposeA) only when the column count of
\* the (possibly transposed) matrix equals the vector length, and an error
\* when the contracted dimension does not match.
C8_MatVecMulContracted ==
    (/\ Done("linAlgBinOp.InferShape")
     /\ args.kind = "matVecMul"
     /\ ~args.in0.isNil /\ ~args.in1.isNil
     /\ Len(args.in0.dims) = 2 /\ Len(args.in1.dims) = 1)
    => LET x == IF args.transA THEN transpose(args.in0.dims) ELSE args.in0.dims
           n == args.in1.dims[1]
       IN  /\ ~out.panic
           /\ (x[2] = n => out.err = "nil" /\ out.retVal = Shape(<<x[1], 1>>))
           /\ (x[2] # n => out.err # "nil" /\ out.retVal = NilDimSizer)

(***************************************************************************)
(* Inputs of the accumulating and linear-algebra calls.                    *)
(***************************************************************************)
\* n consecutive numbers from base
Ramp(n, base) == [i \in 1..n |-> Q(base + i - 1)]

ScalarValues == {Scalar(t, Q(n)) : t \in FloatDtypes, n \in 1..MaxVal}

\* tensors of TLen elements, and one longer tensor no other tensor fits
TensorValues ==
    {Tensor(t, <<TLen>>, Ramp(TLen, base)) : t \in FloatDtypes, base \in 1..MaxBase}
        \cup {Tensor(Float64, <<TLen + 1>>, Ramp(TLen + 1, 1))}

ElemValues == ScalarValues \cup TensorValues

\* shapes of the operands of the linear-algebra operations
LAShapes == {<<LDim>>, <<LDim + 1>>, <<LDim, LDim>>, <<LDim, LDim + 1>>}

\* operand tensors: untransposed, some of them refusing T()
LAOperands ==
    {TObj(Float64, shape, Ramp(TotalSize(shape), base), FALSE, noT) :
        shape \in LAShapes, base \in 1..MaxBase, noT \in BOOLEAN}

\* accumulator tensors of the linear-algebra operations
LAAccumulators ==
    {TObj(Float64, shape, Ramp(TotalSize(shape), base), FALSE, FALSE) :
        shape \in {scalarShape, <<LDim>>, <<LDim, LDim>>}, base \in 0..MaxD}

\* scalar accumulators
ScalarAccumulators == {Scalar(t, Q(n)) : t \in FloatDtypes, n \in 0..MaxD}

\* the heaps and operand lists of a binary linear-algebra call: two operand
\* tensors, or one tensor given as both operands
LAHeapsAndInputs ==
    {[heap |-> <<a, b>>, inputs |-> <<TRef(1), TRef(2)>>] :
        a \in LAOperands, b \in LAOperands}
        \cup {[heap |-> <<a>>, inputs |-> <<TRef(1), TRef(1)>>] : a \in LAOperands}

LinAlgOps ==
    {linAlgBinOp(kind, transA, transB) :
        kind \in LinAlgKinds, transA \in BOOLEAN, transB \in BOOLEAN}

(***************************************************************************)
(* Actions: the IncrDo methods.                                            *)
(***************************************************************************)
InitElemIncrDo ==
    \E kind \in BinOpKinds, incr \in ElemValues, a \in ElemValues, b \in ElemValues :
        Calling("elemBinOp.IncrDo",
                [eop |-> newEBOByType(kind, TypeOf(a), TypeOf(b)),
                 incr |-> incr, vals |-> <<a, b>>], <<>>, <<>>)

InitTBinIncrDo ==
    \E kind \in BinOpKinds, tensorLeft \in BOOLEAN,
       incr \in ElemValues, a \in ElemValues, b \in ElemValues :
        Calling("tBinOp.IncrDo",
                [o |-> tBinOp(kind, tensorLeft), incr |-> incr, vals |-> <<a, b>>],
                <<>>, <<>>)

InitLinAlgIncrDo ==
    \E lop \in LinAlgOps, hi \in LAHeapsAndInputs :
        \/ \E incr \in ScalarAccumulators :
              Calling("linAlgBinOp.IncrDo",
                      [lop |-> lop, incr |-> incr, inputs |-> hi.inputs,
                       heap |-> hi.heap], hi.heap, <<>>)
        \/ \E acc \in LAAccumulators :
              LET h == hi.heap \o <<acc>>
              IN  Calling("linAlgBinOp.IncrDo",
                          [lop |-> lop, incr |-> TRef(Len(h)), inputs |-> hi.inputs,
                           heap |-> h], h, <<>>)

ElemIncrDo ==
    /\ pc = "call" /\ op = "elemBinOp.IncrDo"
    /\ LET r == elemBinOpIncrDo(args.eop, args.incr, args.vals)
       IN  out' = [err |-> r.err, panic |-> FALSE, incr |-> r.incr, vals |-> r.vals]
    /\ pc' = "done"
    /\ UNCHANGED <<op, args, heap, dv>>

TBinIncrDo ==
    /\ pc = "call" /\ op = "tBinOp.IncrDo"
    /\ LET r == tBinOpIncrDo(args.o, args.incr, args.vals)
       IN  out' = [err |-> r.err, panic |-> FALSE, incr |-> r.incr, vals |-> r.vals]
    /\ pc' = "done"
    /\ UNCHANGED <<op, args, heap, dv>>

LinAlgIncrDo ==
    /\ pc = "call" /\ op = "linAlgBinOp.IncrDo"
    /\ LET r == linAlgBinOpIncrDo(args.lop, heap, args.incr, args.inputs)
       IN  /\ out' = [err |-> r.err, panic |-> r.panic, incr |-> r.incr]
           /\ heap' = r.heap
    /\ pc' = "done"
    /\ UNCHANGED <<op, args, dv>>

InitIncr == InitElemIncrDo \/ InitTBinIncrDo \/ InitLinAlgIncrDo

NextIncr == ElemIncrDo \/ TBinIncrDo \/ LinAlgIncrDo

SpecIncr == InitIncr /\ [][NextIncr]_vars

(***************************************************************************)
(* Claims on IncrDo into an accumulator that is not a Tensor.              *)
(***************************************************************************)
\* the forward computation of the IncrDo call in args: its value, its error
\* and whether it aborts
ForwardOfCall ==
    CASE op = "elemBinOp.IncrDo" ->
            LET r == elemBinOpDo(args.eop, args.vals)
            IN  [retVal |-> r.retVal, err |-> r.err, panic |-> FALSE]
      [] op = "tBinOp.IncrDo" ->
            LET r == tBinOpdo(args.o, args.vals, "none", NilValue)
            IN  [retVal |-> r.retVal, err |-> r.err, panic |-> FALSE]
      [] op = "linAlgBinOp.IncrDo" ->
            LET r == linAlgBinOpdo(args.lop, args.heap, args.inputs, NoOpts)
            IN  [retVal |-> r.retVal, err |-> r.err, panic |-> r.panic]

\* an IncrDo call has returned whose accumulator is not a Tensor and whose
\* forward computation succeeds
ScalarIncrDone ==
    /\ pc = "done"
    /\ op \in {"elemBinOp.IncrDo", "tBinOp.IncrDo", "linAlgBinOp.IncrDo"}
    /\ IsScalarValue(args.incr)
    /\ ForwardOfCall.err = NilErr
    /\ ~ForwardOfCall.panic

\* accumulator + result: the scalar accumulator added to the result, to each
\* of its elements when the result is a tensor
Plus(acc, res) ==
    IF IsScalarValue(res)
    THEN Scalar(acc.t, QAdd(acc.data[1], res.data[1]))
    ELSE Tensor(res.t, res.shape,
                [i \in 1..Len(res.data) |-> QAdd(acc.data[1], res.data[i])])

\* C2 (as stated): IncrDo (elemBinOp, tBinOp and linAlgBinOp) with an
\* accumulator that is not a Tensor and a forward computation that succeeds
\* leaves the accumulator unmodified and returns as its error exactly the
\* unwrapped reroute-value sentinel carrying accumulator + result, never nil.
C2_AlwaysSentinel ==
    ScalarIncrDone
    => /\ out.incr = args.incr
       /\ out.err = noIncrErr(Plus(args.incr, ForwardOfCall.retVal))

\* C2 (amended): under the same precondition the accumulator is unmodified,
\* the call does not abort and its error is never nil; when the accumulator
\* has the dtype of the forward result the error is exactly the unwrapped
\* sentinel carrying accumulator + result, and otherwise (the unsafe Add of
\* the two fails) it is a wrapped genuine error that carries no value.
C2_SentinelOrAddError ==
    ScalarIncrDone
    => LET res == ForwardOfCall.retVal
       IN  /\ out.incr = args.incr
           /\ ~out.panic
           /\ out.err # NilErr
           /\ (args.incr.t = res.t => out.err = noIncrErr(Plus(args.incr, res)))
           /\ (args.incr.t # res.t
                 => ~IsValuer(out.err) /\ out.err.wrapped /\ out.err.e # "noIncrErr")

\* C2 witness: a call with a non-zero scalar accumulator returned the
\* sentinel carrying a tensor, the accumulator added to every element
C2_Witness ==
    /\ ScalarIncrDone
    /\ args.incr.data[1] # Q(0)
    /\ IsValuer(out.err)
    /\ IsTensorValue(out.err.v)
    /\ out.err.v = Plus(args.incr, ForwardOfCall.retVal)

(***************************************************************************)
(* Actions: linAlgBinOp.do.                                                *)
(***************************************************************************)
\* the operand lists of a forward call: two operands, or too few or too many
InitLinAlgDo ==
    \E lop \in LinAlgOps, hi \in LAHeapsAndInputs, tr0 \in BOOLEAN :
        LET h == [hi.heap EXCEPT ![1].tr = tr0 /\ Len(hi.heap[1].shape) = 2]
        IN  \E inputs \in {hi.inputs, <<hi.inputs[1]>>, hi.inputs \o <<hi.inputs[1]>>} :
                Calling("linAlgBinOp.do",
                        [lop |-> lop, inputs |-> inputs, heap |-> h], h, <<>>)

LinAlgDo ==
    /\ pc = "call" /\ op = "linAlgBinOp.do"
    /\ LET r == linAlgBinOpdo(args.lop, heap, args.inputs, NoOpts)
       IN  /\ out' = [retVal |-> r.retVal, err |-> r.err, panic |-> r.panic]
           /\ heap' = r.heap
    /\ pc' = "done"
    /\ UNCHANGED <<op, args, dv>>

\* the preallocated value of a UsePreallocDo call: a Scalar, or a tensor of
\* the heap that is none of the operands
InitLinAlgUsePreallocDo ==
    \E lop \in LinAlgOps, hi \in LAHeapsAndInputs :
        \/ \E prealloc \in ScalarAccumulators :
              Calling("linAlgBinOp.UsePreallocDo",
                      [lop |-> lop, prealloc |-> prealloc, inputs |-> hi.inputs,
                       heap |-> hi.heap], hi.heap, <<>>)
        \/ \E acc \in LAAccumulators :
              LET h == hi.heap \o <<acc>>
              IN  Calling("linAlgBinOp.UsePreallocDo",
                          [lop |-> lop, prealloc |-> TRef(Len(h)), inputs |-> hi.inputs,
                           heap |-> h], h, <<>>)

LinAlgUsePreallocDo ==
    /\ pc = "call" /\ op = "linAlgBinOp.UsePreallocDo"
    /\ LET r == linAlgBinOpUsePreallocDo(args.lop, heap, args.prealloc, args.inputs)
       IN  /\ out' = [retVal |-> r.retVal, err |-> r.err, panic |-> r.panic]
           /\ heap' = r.heap
    /\ pc' = "done"
    /\ UNCHANGED <<op, args, dv>>

InitLinAlg == InitLinAlgDo \/ InitLinAlgIncrDo \/ InitLinAlgUsePreallocDo

NextLinAlg == LinAlgDo \/ LinAlgIncrDo \/ LinAlgUsePreallocDo

SpecLinAlg == InitLinAlg /\ [][NextLinAlg]_vars

(***************************************************************************)
(* Claims on the linear-algebra operations.                                *)
(***************************************************************************)
\* C5: linAlgBinOp.do restores the transpose state of every operand on every
\* way out: after the call, whether it returned a result, an arity error, an
\* error from transposing either operand or a kernel error, or aborted, the
\* transposed flag of each tensor equals its value before the call.
C5_TransposeRestored ==
    Done("linAlgBinOp.do")
    => /\ Len(heap) = Len(args.heap)
       /\ \A ref \in 1..Len(heap) : heap[ref].tr = args.heap[ref].tr

\* C5 witness: a call with transA and transB set on two matrices, the first
\* one transposed before the call, failed in transposing the second operand,
\* after the first had been transposed, and the first is as before the call.
C5_Witness ==
    /\ Done("linAlgBinOp.do")
    /\ args.lop.transA /\ args.lop.transB
    /\ args.inputs = <<TRef(1), TRef(2)>>
    /\ Len(args.heap[1].shape) = 2 /\ ~args.heap[1].noT /\ args.heap[1].tr
    /\ args.heap[2].noT
    /\ out.err = Wrap(Error("tFail"))
    /\ heap[1].tr

\* the heap as the dense primitive of the call in args sees it, both
\* transpositions applied
ViewsOfCall ==
    LET h == args.heap
        ha == IF args.lop.transA THEN T(h, args.inputs[1].ref).heap ELSE h
    IN  IF args.lop.transB THEN T(ha, args.inputs[2].ref).heap ELSE ha

\* both transpositions of the call in args succeed
TransposesOk ==
    /\ args.lop.transA => ~args.heap[args.inputs[1].ref].noT
    /\ args.lop.transB => ~args.heap[args.inputs[2].ref].noT

\* what the dense primitive of the call in args returns when given opts
PrimitiveOfCall(opts) ==
    LET ra == args.inputs[1].ref
        rb == args.inputs[2].ref
    IN  CASE args.lop.kind = "matMul" -> MatMul(ViewsOfCall, ra, rb, opts)
          [] args.lop.kind = "matVecMul" -> MatVecMul(ViewsOfCall, ra, rb, opts)
          [] args.lop.kind = "vecDot" -> Inner(ViewsOfCall, ra, rb)
          [] args.lop.kind = "outerProd" -> Outer(ViewsOfCall, ra, rb, opts)

\* C6: linAlgBinOp.IncrDo with a Tensor accumulator accumulates in place for
\* every kind: after a nil return the accumulator holds its previous
\* contents plus the result of the operation.
C6_TensorAccumulates ==
    (/\ Done("linAlgBinOp.IncrDo")
     /\ IsTRef(args.incr)
     /\ ~out.panic /\ out.err = NilErr)
    => LET acc == args.heap[args.incr.ref]
           res == PrimitiveOfCall(NoOpts).ret
       IN  heap[args.incr.ref].data =
               [i \in 1..Len(acc.data) |-> QAdd(acc.data[i], res.data[i])]

\* C7: when the dense primitive reports failure, linAlgBinOp.do returns an
\* error and no result for every kind, and does not abort.
C7_KernelFailureIsError ==
    (/\ Done("linAlgBinOp.do")
     /\ Len(args.inputs) = 2
     /\ TransposesOk
     /\ PrimitiveOfCall(NoOpts).err # NilErr)
    => /\ ~out.panic
       /\ out.err # NilErr
       /\ out.retVal = NilValue

\* the tensor x seen transposed when flag is set (a vector has one view)
Seen(x, flag) ==
    IF flag /\ Len(x.shape) = 2 THEN [x EXCEPT !.tr = ~x.tr] ELSE x

\* the operands of the call in args, each in a tensor of its own: the first
\* transposed exactly when transA is set, the second exactly when transB is
OperandsByFlags ==
    <<Seen(args.heap[args.inputs[1].ref], args.lop.transA),
      Seen(args.heap[args.inputs[2].ref], args.lop.transB)>>

\* what the dense primitive of the call in args returns on these operands
PrimitiveByFlags ==
    CASE args.lop.kind = "matMul" -> MatMul(OperandsByFlags, 1, 2, NoOpts)
      [] args.lop.kind = "matVecMul" -> MatVecMul(OperandsByFlags, 1, 2, NoOpts)
      [] args.lop.kind = "vecDot" -> Inner(OperandsByFlags, 1, 2)
      [] args.lop.kind = "outerProd" -> Outer(OperandsByFlags, 1, 2, NoOpts)

\* a forward call on two operands that both transpose where asked to
ForwardDispatched ==
    /\ Done("linAlgBinOp.do")
    /\ Len(args.inputs) = 2
    /\ TransposesOk

\* C21: in linAlgBinOp.do the dispatched primitive sees the first operand
\* transposed exactly when transA is set and the second exactly when transB
\* is set, also when both operands are one tensor: the views handed to the
\* primitive are the operands' views with the flagged ones transposed, and
\* the call returns what the primitive returns on such operands.
C21_TransposedByFlags ==
    ForwardDispatched =>
        /\ ViewsOfCall[args.inputs[1].ref] = OperandsByFlags[1]
        /\ ViewsOfCall[args.inputs[2].ref] = OperandsByFlags[2]
        /\ (out.err = NilErr /\ ~out.panic) <=> PrimitiveByFlags.err = NilErr
        /\ (PrimitiveByFlags.err = NilErr /\ args.lop.kind # "vecDot")
              => out.retVal = PrimitiveByFlags.ret

(***************************************************************************)
(* Actions: numeric differentiation of the binary elementwise operations.  *)
(* Node 1 is x, node 2 is y and node 3 is the output z, bound after the    *)
(* forward pass: the primal value of z is the operation applied to the     *)
(* values of its inputs, and every derivative has the dtype and the shape  *)
(* of its primal value.                                                    *)
(***************************************************************************)
PrimalValues(t) ==
    {Scalar(t, Q(n)) : n \in 1..MaxVal}
        \cup {Tensor(t, <<TLen>>, Ramp(TLen, base)) : base \in 1..MaxBase}

\* the derivatives a value of dtype t shaped like v may have accumulated
DerivValues(t, v) ==
    IF IsTensorValue(v)
    THEN {Tensor(t, v.shape, Ramp(TotalSize(v.shape), k)) : k \in 0..MaxD}
    ELSE {Scalar(t, Q(k)) : k \in 0..MaxD}

\* the value bound to the output of the operation on the values a and b
Forward(kind, a, b) ==
    elemBinOpDo(newEBOByType(kind, TypeOf(a), TypeOf(b)), <<a, b>>).retVal

\* the input lists of a differentiation: x and y, x twice (x op x), or a
\* list of the wrong length
InputLists == {<<1, 2>>, <<1, 1>>, <<1>>, <<1, 2, 1>>}

\* the calls of the operation name on every bound graph
InitGraphCall(name, kinds, lists) ==
    \E kind \in kinds, inputs \in lists, t \in FloatDtypes :
      \E xv \in PrimalValues(t), yv \in PrimalValues(t) :
        \E xd \in DerivValues(t, xv), yd \in DerivValues(t, yv) :
          LET bv == IF Len(inputs) >= 2 /\ inputs[2] = 1 THEN xv ELSE yv
              zv == Forward(kind, xv, bv)
          IN  \E zd \in DerivValues(t, zv) :
                LET d == <<dualValue(xv, xd), dualValue(yv, yd), dualValue(zv, zd)>>
                IN  Calling(name,
                            [kind |-> kind, inputs |-> inputs, output |-> 3, dv |-> d],
                            <<>>, d)

InitDoDiff == InitGraphCall("elemBinOp.DoDiff", BinOpKinds, InputLists)

InitHadamardProdDiff ==
    InitGraphCall("hadamardProdDiff", {"mul"}, {<<1, 2>>, <<1, 1>>})

DoDiff ==
    /\ pc = "call" /\ op = "elemBinOp.DoDiff"
    /\ LET r == elemBinOpDoDiff(args.kind, dv, args.inputs, args.output)
       IN  /\ out' = [err |-> r.err]
           /\ dv' = r.dv
    /\ pc' = "done"
    /\ UNCHANGED <<op, args, heap>>

HadamardProdDiff ==
    /\ pc = "call" /\ op = "hadamardProdDiff"
    /\ LET r == hadamardProdDiff(dv, args.inputs[1], args.inputs[2], args.output)
       IN  /\ out' = [err |-> r.err]
           /\ dv' = r.dv
    /\ pc' = "done"
    /\ UNCHANGED <<op, args, heap>>

\* the graph nodes of a symbolic differentiation: x and y scalar or vectors,
\* the output and the incoming gradient shaped by the elementwise rule
InitSymDiff ==
    \E kind \in BinOpKinds, sx \in {scalarShape, <<TLen>>}, sy \in {scalarShape, <<TLen>>},
       prod \in BOOLEAN, div \in BOOLEAN, neg \in BOOLEAN, sum \in BOOLEAN :
      LET x == InputNode("x", sx)
          y == InputNode("y", sy)
          sz == IF IsScalarShape(sx) THEN sy ELSE sx
      IN  \E inputs \in {<<x, y>>, <<x, x>>, <<x>>, <<x, y, x>>} :
            Calling("elemBinOp.SymDiff",
                    [kind |-> kind, inputs |-> inputs,
                     output |-> InputNode("z", sz), gradNode |-> InputNode("gradZ", sz),
                     ok |-> [prod |-> prod, div |-> div, neg |-> neg, sum |-> sum]],
                    <<>>, <<>>)

SymDiff ==
    /\ pc = "call" /\ op = "elemBinOp.SymDiff"
    /\ out' = elemBinOpSymDiff(args.kind, args.inputs, args.output, args.gradNode,
                               args.ok)
    /\ pc' = "done"
    /\ UNCHANGED <<op, args, heap, dv>>

\* the direct calls of the backward functions of Div, Add and Sub
InitBackward ==
    \/ InitGraphCall("hadamardDivDiff", {"div"}, {<<1, 2>>, <<1, 1>>})
    \/ InitGraphCall("addDiff", {"add"}, {<<1, 2>>, <<1, 1>>})
    \/ InitGraphCall("subDiff", {"sub"}, {<<1, 2>>, <<1, 1>>})

HadamardDivDiff ==
    /\ pc = "call" /\ op = "hadamardDivDiff"
    /\ LET r == hadamardDivDiff(dv, args.inputs[1], args.inputs[2], args.output)
       IN  /\ out' = [err |-> r.err]
           /\ dv' = r.dv
    /\ pc' = "done"
    /\ UNCHANGED <<op, args, heap>>

AddDiff ==
    /\ pc = "call" /\ op = "addDiff"
    /\ LET r == addDiff(dv, args.inputs[1], args.inputs[2], args.output)
       IN  /\ out' = [err |-> r.err]
           /\ dv' = r.dv
    /\ pc' = "done"
    /\ UNCHANGED <<op, args, heap>>

SubDiff ==
    /\ pc = "call" /\ op = "subDiff"
    /\ LET r == subDiff(dv, args.inputs[1], args.inputs[2], args.output)
       IN  /\ out' = [err |-> r.err]
           /\ dv' = r.dv
    /\ pc' = "done"
    /\ UNCHANGED <<op, args, heap>>

InitDiff == InitDoDiff \/ InitHadamardProdDiff \/ InitSymDiff \/ InitBackward

NextDiff ==
    DoDiff \/ HadamardProdDiff \/ SymDiff \/ HadamardDivDiff \/ AddDiff \/ SubDiff

SpecDiff == InitDiff /\ [][NextDiff]_vars

(***************************************************************************)
(* Claims on numeric differentiation.                                      *)
(***************************************************************************)
\* the first inner IncrDo of the Mul and Div backward functions in the call
\* in args, on the derivative of x
FirstIncrDo ==
    LET d == args.dv
        x == args.inputs[1]
        y == args.inputs[2]
        z == args.output
    IN  IF args.kind = "mul"
        THEN elemBinOpIncrDo(newEBOByType("mul", TypeOf(d[y].Value), TypeOf(d[z].d)),
                             d[x].d, <<d[y].Value, d[z].d>>)
        ELSE elemBinOpIncrDo(newEBOByType("div", TypeOf(d[z].d), TypeOf(d[y].Value)),
                             d[x].d, <<d[z].d, d[y].Value>>)

\* the dual values after the first gradient: the carried value stored when
\* the first IncrDo returned the sentinel
AfterFirst ==
    IF IsValuer(FirstIncrDo.err)
    THEN [args.dv EXCEPT ![args.inputs[1]].d = FirstIncrDo.err.v]
    ELSE [args.dv EXCEPT ![args.inputs[1]].d = FirstIncrDo.incr]

\* the second inner IncrDo, on the derivative of y
SecondIncrDo ==
    LET d == AfterFirst
        x == args.inputs[1]
        y == args.inputs[2]
        z == args.output
    IN  IF args.kind = "mul"
        THEN elemBinOpIncrDo(newEBOByType("mul", TypeOf(d[x].Value), TypeOf(d[z].d)),
                             d[y].d, <<d[x].Value, d[z].d>>)
        ELSE LET div == newEBOByType("div", TypeOf(d[z].d), TypeOf(d[y].Value))
                 q == elemBinOpDo(div, <<d[z].Value, d[y].Value>>).retVal
             IN  elemBinOpIncrDo(newEBOByType("mul", TypeOf(d[z].Value), TypeOf(d[y].Value)),
                                 d[y].d, <<d[z].d, negDo(q).retVal>>)

\* the derivative DoDiff leaves in node n for the stored value v: a tensor
\* stored in a scalar node is summed to a Scalar
StoredAs(n, v) ==
    IF IsScalarValue(args.dv[n].Value) /\ IsTensorValue(v) THEN sumToScalar(v) ELSE v

\* C3: elemBinOp.DoDiff never returns the reroute-value sentinel, wrapped or
\* not, to its caller; for Mul and Div, when an inner IncrDo returns the
\* sentinel the carried value is stored as the derivative of the
\* corresponding input and the next gradient is processed, so that two
\* sentinels in a row end in a nil error.
C3_SentinelNeverSurfaces ==
    Done("elemBinOp.DoDiff")
    => /\ out.err.e # "noIncrErr"
       /\ (args.kind \in {"mul", "div"} /\ Len(args.inputs) = 2 /\ IsValuer(FirstIncrDo.err))
            => LET x == args.inputs[1]
                   y == args.inputs[2]
               IN  /\ x # y => dv[x].d = StoredAs(x, FirstIncrDo.err.v)
                   /\ IsValuer(SecondIncrDo.err)
                        => /\ dv[y].d = StoredAs(y, SecondIncrDo.err.v)
                           /\ out.err = NilErr
                   /\ SecondIncrDo.err = NilErr
                        => /\ dv[y].d = SecondIncrDo.incr
                           /\ out.err = NilErr

\* C3 witness: a Div differentiation of a scalar by a tensor ended with a nil
\* error after both inner IncrDo calls returned the sentinel; the value
\* carried for x, a tensor, is stored summed.
C3_Witness ==
    /\ Done("elemBinOp.DoDiff")
    /\ args.kind = "div" /\ args.inputs = <<1, 2>>
    /\ IsValuer(FirstIncrDo.err) /\ IsTensorValue(FirstIncrDo.err.v)
    /\ out.err = NilErr
    /\ dv[1].d = sumToScalar(FirstIncrDo.err.v)
    /\ dv[1].d # args.dv[1].d

\* element i of a value, a Scalar standing for each of its elements
EltAt(v, i) == IF IsTensorValue(v) THEN v.data[i] ELSE v.data[1]

\* prev + f (*) g, elementwise, Scalars broadcast
PlusProd(prev, f, g) ==
    LET shape == IF IsTensorValue(prev) THEN prev.shape
                 ELSE IF IsTensorValue(f) THEN f.shape
                 ELSE g.shape
        data == [i \in 1..TotalSize(shape) |->
                    QAdd(EltAt(prev, i), QMul(EltAt(f, i), EltAt(g, i)))]
    IN  IF IsTensorValue(prev) \/ IsTensorValue(f) \/ IsTensorValue(g)
        THEN Tensor(prev.t, shape, data)
        ELSE Scalar(prev.t, data[1])

\* C4: hadamardProdDiff on bound values x, y and output derivative gradZ
\* returns nil and leaves the derivative of x equal to its previous value
\* plus y (*) gradZ and the derivative of y equal to its previous value plus
\* x (*) gradZ, for scalar and for tensor operands; when x and y are the same
\* node both terms are added to its one derivative.  Nothing else changes.
C4_ProdGradients ==
    Done("hadamardProdDiff")
    => LET x == args.inputs[1]
           y == args.inputs[2]
           gz == args.dv[args.output].d
           afterX == PlusProd(args.dv[x].d, args.dv[y].Value, gz)
           prevY == IF x = y THEN afterX ELSE args.dv[y].d
       IN  /\ out.err = NilErr
           /\ dv[y].d = PlusProd(prevY, args.dv[x].Value, gz)
           /\ x # y => dv[x].d = afterX
           /\ \A n \in 1..Len(dv) : dv[n].Value = args.dv[n].Value
           /\ dv[args.output] = args.dv[args.output]

\* C4 witness: scalars x = 2, y = 3, gradZ = 1 with zero initial derivatives
\* gave gradX = 3 and gradY = 2.
C4_Witness ==
    /\ Done("hadamardProdDiff")
    /\ args.inputs = <<1, 2>>
    /\ args.dv[1] = dualValue(Scalar(Float64, Q(2)), Scalar(Float64, Q(0)))
    /\ args.dv[2] = dualValue(Scalar(Float64, Q(3)), Scalar(Float64, Q(0)))
    /\ args.dv[3].d = Scalar(Float64, Q(1))
    /\ dv[1].d = Scalar(Float64, Q(3))
    /\ dv[2].d = Scalar(Float64, Q(2))

\* the call in args differentiates Hadamard Pow, or a comparison kind, on
\* two inputs
PowCall == args.kind = "pow" /\ Len(args.inputs) = 2

CmpCall == args.kind \in CmpKinds /\ Len(args.inputs) = 2

\* C11: differentiation of Hadamard Pow, symbolic (elemBinOp.SymDiff) and
\* numeric (elemBinOp.DoDiff), always fails with a not-implemented error, and
\* differentiation of every comparison kind always fails with a
\* not-differentiable error; no gradient node is returned and no bound
\* derivative (nor any bound value) is changed.
C11_PowAndCmpNotDifferentiated ==
    /\ Done("elemBinOp.SymDiff") /\ PowCall
         => /\ out.err.e = "hadamardPowDiffExpr not yet implemented"
            /\ out.retVal = <<>>
    /\ Done("elemBinOp.SymDiff") /\ CmpCall
         => /\ out.err.e = "Nondifferentiable"
            /\ out.retVal = <<>>
    /\ Done("elemBinOp.DoDiff") /\ PowCall
         => /\ out.err.e = "not yet implemented"
            /\ dv = args.dv
    /\ Done("elemBinOp.DoDiff") /\ CmpCall
         => /\ out.err.e = "Non differentiable"
            /\ dv = args.dv

\* C11 witness: a numeric differentiation of Pow on two tensors with a
\* non-zero output derivative failed and left every derivative as it was.
C11_Witness ==
    /\ Done("elemBinOp.DoDiff") /\ PowCall
    /\ IsTensorValue(args.dv[1].Value) /\ IsTensorValue(args.dv[2].Value)
    /\ args.dv[3].d.data[1] # Q(0)
    /\ out.err # NilErr
    /\ dv = args.dv

(***************************************************************************)
(* Structural hashes (op_math): WriteHash as the sequence of bytes and      *)
(* strings it feeds to the hash.                                           *)
(***************************************************************************)
\* the position of x in the sequence seq of distinct elements, from 0
IndexOf(seq, x) == (CHOOSE i \in 1..Len(seq) : seq[i] = x) - 1

\* the enumeration ʘBinaryOperatorType, as binary.Write writes it
BinOpTypes ==
    <<"add", "sub", "mul", "div", "pow", "lt", "gt", "lte", "gte", "eq", "ne">>

\* the enumeration āBinaryOperator, as binary.Write writes it
LinAlgOperators == <<"matMul", "matVecMul", "vecDot", "outerProd">>

\* the %v format of a Type: a Dtype prints its name, a *TensorType says that
\* it is a tensor of its dtype
TypeString(t) == IF t.tensor THEN <<"Tensor", t.of>> ELSE <<t.of>>

\* elemBinOp.WriteHash: the operator type, then "%v,%v" of arg0 and arg1
elemBinOpWriteHash(eop) ==
    <<IndexOf(BinOpTypes, eop.binOp.ot)>>
        \o TypeString(eop.arg0) \o <<",">> \o TypeString(eop.arg1)

\* linAlgBinOp.WriteHash: the operator, then one byte for each of transA and
\* transB
linAlgBinOpWriteHash(lop) ==
    <<IndexOf(LinAlgOperators, lop.kind),
      IF lop.transA THEN 1 ELSE 0,
      IF lop.transB THEN 1 ELSE 0>>

\* the types of the operands of an elementwise operation
ValueTypes == {[tensor |-> tensor, of |-> of] : tensor \in BOOLEAN, of \in FloatDtypes}

\* the elementwise operations: newEBOByType on every kind and pair of types,
\* with retSame as it is or set
ElemBinOps ==
    {[newEBOByType(kind, at, bt) EXCEPT !.retSame = retSame] :
        kind \in BinOpKinds, at \in ValueTypes, bt \in ValueTypes, retSame \in BOOLEAN}

InitHash ==
    \/ \E a \in ElemBinOps, b \in ElemBinOps :
          Calling("elemBinOp.WriteHash", [a |-> a, b |-> b], <<>>, <<>>)
    \/ \E a \in LinAlgOps, b \in LinAlgOps :
          Calling("linAlgBinOp.WriteHash", [a |-> a, b |-> b], <<>>, <<>>)

\* both operations write their hash
ElemWriteHash ==
    /\ pc = "call" /\ op = "elemBinOp.WriteHash"
    /\ out' = [a |-> elemBinOpWriteHash(args.a), b |-> elemBinOpWriteHash(args.b)]
    /\ pc' = "done"
    /\ UNCHANGED <<op, args, heap, dv>>

LinAlgWriteHash ==
    /\ pc = "call" /\ op = "linAlgBinOp.WriteHash"
    /\ out' = [a |-> linAlgBinOpWriteHash(args.a), b |-> linAlgBinOpWriteHash(args.b)]
    /\ pc' = "done"
    /\ UNCHANGED <<op, args, heap, dv>>

NextHash == ElemWriteHash \/ LinAlgWriteHash

SpecHash == InitHash /\ [][NextHash]_vars

\* the identity of an elementwise operation: kind, operand types, retSame
ElemIdentity(eop) == <<eop.binOp.ot, eop.arg0, eop.arg1, eop.retSame>>

\* C12: the structural hash is computed over kind, operand types and flags:
\* two elementwise operations feed the same bytes to the hash exactly when
\* they agree in kind, in both operand types and in retSame, and two
\* linear-algebra operations exactly when they agree in kind, transA and
\* transB.
C12_HashOverIdentity ==
    /\ Done("elemBinOp.WriteHash")
         => (out.a = out.b <=> ElemIdentity(args.a) = ElemIdentity(args.b))
    /\ Done("linAlgBinOp.WriteHash")
         => (out.a = out.b <=> args.a = args.b)

\* the dual values as the backward function of the call left them
AfterDiffFn ==
    BinOpDiffFn(args.kind, args.dv, args.inputs[1], args.inputs[2], args.output).dv

\* the sum of the numbers of a sequence
RECURSIVE Total(_)
Total(data) == IF Len(data) = 0 THEN Q(0) ELSE QAdd(Head(data), Total(Tail(data)))

\* C17: after elemBinOp.DoDiff returns without error, the derivative bound
\* to every scalar input is a Scalar: a tensor the backward function left
\* there has been replaced by the sum of its elements, and is no longer the
\* bound derivative.
C17_ScalarInputsScalarDerivs ==
    (Done("elemBinOp.DoDiff") /\ out.err = NilErr)
    => \A i \in 1..Len(args.inputs) :
          LET n == args.inputs[i]
          IN  IsScalarValue(dv[n].Value)
              => /\ IsScalarValue(dv[n].d)
                 /\ IsTensorValue(AfterDiffFn[n].d)
                      => /\ dv[n].d = Scalar(AfterDiffFn[n].d.t, Total(AfterDiffFn[n].d.data))
                         /\ dv[n].d # AfterDiffFn[n].d

\* C17 witness: an Add of a scalar x and a tensor y, whose backward function
\* leaves a tensor as the derivative of x, ended with the sum bound to x.
C17_Witness ==
    /\ Done("elemBinOp.DoDiff") /\ out.err = NilErr
    /\ args.kind = "add" /\ args.inputs = <<1, 2>>
    /\ IsScalarValue(dv[1].Value)
    /\ IsTensorValue(AfterDiffFn[1].d)
    /\ IsScalarValue(dv[1].d)

\* F(prev, f, g) in each element, Scalars broadcast: a tensor shaped like
\* the first tensor among prev, f and g, or a Scalar when all three are
Lifted(F(_, _, _), prev, f, g) ==
    LET shape == IF IsTensorValue(prev) THEN prev.shape
                 ELSE IF IsTensorValue(f) THEN f.shape
                 ELSE g.shape
        data == [i \in 1..TotalSize(shape) |-> F(EltAt(prev, i), EltAt(f, i), EltAt(g, i))]
    IN  IF IsTensorValue(prev) \/ IsTensorValue(f) \/ IsTensorValue(g)
        THEN Tensor(prev.t, shape, data)
        ELSE Scalar(prev.t, data[1])

\* prev + f / g
PlusQuot(prev, f, g) == Lifted(LAMBDA p, a, b : QAdd(p, QDiv(a, b)), prev, f, g)

\* prev + (-(f / g)) * gz
PlusNegQuotTimes(prev, f, g, gz) ==
    Lifted(LAMBDA p, q, b : QAdd(p, QMul(QSub(Q(0), q), b)),
           prev, Lifted(LAMBDA p, a, b : QDiv(a, b), f, f, g), gz)

\* prev + gz and prev - gz
PlusGrad(prev, gz) == Lifted(LAMBDA p, a, b : QAdd(p, a), prev, gz, gz)

MinusGrad(prev, gz) == Lifted(LAMBDA p, a, b : QSub(p, a), prev, gz, gz)

\* the dual value of the output, and the primal values of all nodes, are as
\* before the call
OutputAndValuesUnchanged ==
    /\ dv[args.output] = args.dv[args.output]
    /\ \A n \in 1..Len(dv) : dv[n].Value = args.dv[n].Value

\* C19: hadamardDivDiff on z = x / y returns nil and leaves the derivative
\* of x equal to its previous value plus gradZ / y and the derivative of y
\* equal to its previous value plus (-(z / y)) * gradZ, for scalar and tensor
\* x and y (Scalars broadcast); the value and the derivative of z are
\* unchanged.  When x and y are one node both terms reach its derivative.
C19_DivGradients ==
    Done("hadamardDivDiff")
    => LET x == args.inputs[1]
           y == args.inputs[2]
           gz == args.dv[args.output].d
           afterX == PlusQuot(args.dv[x].d, gz, args.dv[y].Value)
           prevY == IF x = y THEN afterX ELSE args.dv[y].d
       IN  /\ out.err = NilErr
           /\ dv[y].d = PlusNegQuotTimes(prevY, args.dv[args.output].Value,
                                         args.dv[y].Value, gz)
           /\ x # y => dv[x].d = afterX
           /\ OutputAndValuesUnchanged

\* C19 witness: a scalar x = 2 divided by a tensor y = (1, 2, ..), with gradZ
\* = (1, 2, ..) and derivatives 0 of x and (0, 1, ..) of y, gave a gradX
\* starting (1, 1) and a gradY starting (-2, 0).
C19_Witness ==
    /\ Done("hadamardDivDiff")
    /\ args.inputs = <<1, 2>>
    /\ args.dv[1] = dualValue(Scalar(Float64, Q(2)), Scalar(Float64, Q(0)))
    /\ args.dv[2].Value = Tensor(Float64, <<TLen>>, Ramp(TLen, 1))
    /\ args.dv[2].d = Tensor(Float64, <<TLen>>, Ramp(TLen, 0))
    /\ args.dv[3].d = Tensor(Float64, <<TLen>>, Ramp(TLen, 1))
    /\ dv[1].d.data[1] = Q(1) /\ dv[1].d.data[2] = Q(1)
    /\ dv[2].d.data[1] = Q(0 - 2) /\ dv[2].d.data[2] = Q(0)

\* C20: addDiff leaves the derivative of each of x and y equal to its
\* previous value plus gradZ; subDiff leaves that of x equal to its previous
\* value plus gradZ and that of y equal to its previous value minus gradZ.
\* Both return nil and leave the derivative of z unchanged, and when x and y
\* are one node its derivative receives both contributions.
C20_AddSubGradients ==
    LET x == args.inputs[1]
        y == args.inputs[2]
        gz == args.dv[args.output].d
    IN  /\ Done("addDiff")
            => /\ out.err = NilErr
               /\ x # y => /\ dv[x].d = PlusGrad(args.dv[x].d, gz)
                           /\ dv[y].d = PlusGrad(args.dv[y].d, gz)
               /\ x = y => dv[x].d = PlusGrad(PlusGrad(args.dv[x].d, gz), gz)
               /\ OutputAndValuesUnchanged
        /\ Done("subDiff")
            => /\ out.err = NilErr
               /\ x # y => /\ dv[x].d = PlusGrad(args.dv[x].d, gz)
                           /\ dv[y].d = MinusGrad(args.dv[y].d, gz)
               /\ x = y => dv[x].d = PlusGrad(MinusGrad(args.dv[x].d, gz), gz)
               /\ OutputAndValuesUnchanged

\* C20 witness: subDiff on tensors x and y with gradZ = (1, 2) and
\* derivatives (1, 2) gave gradX = (2, 4) and gradY = (0, 0).
C20_Witness ==
    /\ Done("subDiff")
    /\ args.inputs = <<1, 2>>
    /\ IsTensorValue(args.dv[1].Value) /\ IsTensorValue(args.dv[2].Value)
    /\ args.dv[1].d.data = Ramp(TLen, 1)
    /\ args.dv[2].d.data = Ramp(TLen, 1)
    /\ args.dv[3].d.data = Ramp(TLen, 1)
    /\ dv[1].d.data = [i \in 1..TLen |-> Q(2 * i)]
    /\ dv[2].d.data = [i \in 1..TLen |-> Q(0)]

(***************************************************************************)
(* Actions: forward evaluation of the binary elementwise operators.        *)
(***************************************************************************)
\* the FuncOpts tBinOp.do is called with
FuncOpts == {"none", "same", "unsafe", "incr", "reuse"}

InitScalarDo ==
    \E kind \in BinOpKinds, t \in FloatDtypes, same \in BOOLEAN :
        \/ \E a \in ElemValues, b \in ElemValues :
              Calling("scalarBinOp.Do",
                      [o |-> scalarBinOp(kind, t), same |-> same, vals |-> <<a, b>>],
                      <<>>, <<>>)
        \/ \E a \in ScalarValues :
              Calling("scalarBinOp.Do",
                      [o |-> scalarBinOp(kind, t), same |-> same, vals |-> <<a>>],
                      <<>>, <<>>)

InitTBinDo ==
    \E kind \in BinOpKinds, tensorLeft \in BOOLEAN, opt \in FuncOpts,
       a \in ElemValues, b \in ElemValues :
        \E reuse \in IF opt \in {"incr", "reuse"} THEN TensorValues ELSE {NilValue} :
            Calling("tBinOp.do",
                    [o |-> tBinOp(kind, tensorLeft), vals |-> <<a, b>>,
                     opt |-> opt, reuse |-> reuse], <<>>, <<>>)

ScalarDo ==
    /\ pc = "call" /\ op = "scalarBinOp.Do"
    /\ out' = scalarBinOpDo(args.o, args.same, args.vals)
    /\ pc' = "done"
    /\ UNCHANGED <<op, args, heap, dv>>

TBinDo ==
    /\ pc = "call" /\ op = "tBinOp.do"
    /\ out' = tBinOpdo(args.o, args.vals, args.opt, args.reuse)
    /\ pc' = "done"
    /\ UNCHANGED <<op, args, heap, dv>>

InitForward == InitScalarDo \/ InitTBinDo

NextForward == ScalarDo \/ TBinDo

SpecForward == InitForward /\ [][NextForward]_vars

\* a call of scalarBinOp.Do on two scalars of which one is not of the
\* operator's dtype
ScalarMismatch ==
    /\ Done("scalarBinOp.Do")
    /\ Len(args.vals) = 2
    /\ IsScalarValue(args.vals[1]) /\ IsScalarValue(args.vals[2])
    /\ (args.vals[1].t # args.o.t \/ args.vals[2].t # args.o.t)

\* a call of tBinOp.do on two operands of different dtypes
TensorMismatch ==
    /\ Done("tBinOp.do")
    /\ args.vals[1].t # args.vals[2].t

\* C13: forward evaluation never coerces dtypes: scalarBinOp.Do on a scalar
\* whose dtype is not the operator's, and tBinOp.do on operands of different
\* dtypes, return no value and the type-mismatch error itself (an error of a
\* kernel would come wrapped), and leave the operands and the tensor handed
\* for reuse as they were.
C13_NoCoercion ==
    /\ ScalarMismatch =>
          /\ out.retVal = NilValue
          /\ out.err = Error("TypeMismatch")
          /\ out.vals = args.vals
    /\ TensorMismatch =>
          /\ out.retVal = NilValue
          /\ out.err = Error("DtypeMismatch")
          /\ out.vals = args.vals
          /\ out.reuse = args.reuse

\* both mismatches happen: a Float32 second scalar under a Float64 operator,
\* and an unsafe tensor call on a Float64 tensor and a Float32 scalar
C13_Witness ==
    \/ /\ ScalarMismatch
       /\ args.vals[1].t = args.o.t
    \/ /\ TensorMismatch
       /\ args.opt = "unsafe"
       /\ IsTensorValue(args.vals[1])

\* the truth of the comparison kind of a and b
Truth(kind, a, b) ==
    CASE kind = "lt" -> a[1] * b[2] < b[1] * a[2]
      [] kind = "gt" -> a[1] * b[2] > b[1] * a[2]
      [] kind = "lte" -> a[1] * b[2] <= b[1] * a[2]
      [] kind = "gte" -> a[1] * b[2] >= b[1] * a[2]
      [] kind = "eq" -> a[1] * b[2] = b[1] * a[2]
      [] kind = "ne" -> a[1] * b[2] # b[1] * a[2]

\* a call of scalarBinOp.Do on two scalars of the operator's dtype
ScalarDoOnDeclared ==
    /\ Done("scalarBinOp.Do")
    /\ Len(args.vals) = 2
    /\ IsScalarValue(args.vals[1]) /\ IsScalarValue(args.vals[2])
    /\ args.vals[1].t = args.o.t /\ args.vals[2].t = args.o.t

\* C14: on two scalars of its dtype, scalarBinOp.Do of a comparison kind
\* returns the truth value of the comparison, typed Bool when retSame is
\* false and as 1 or 0 of the operand dtype when retSame is true; of an
\* arithmetic kind it returns the same value and error whether retSame is set
\* or not.
C14_RetSame ==
    ScalarDoOnDeclared =>
        /\ out.err = NilErr
        /\ args.o.ot \in CmpKinds =>
              /\ out.retVal.k = "Scalar"
              /\ out.retVal.t = (IF args.same THEN args.o.t ELSE Bool)
              /\ out.retVal.data[1] =
                    (IF Truth(args.o.ot, args.vals[1].data[1], args.vals[2].data[1])
                     THEN Q(1) ELSE Q(0))
        /\ args.o.ot \in ArithKinds =>
              LET other == scalarBinOpDo(args.o, ~args.same, args.vals)
              IN  /\ out.retVal = other.retVal
                  /\ out.err = other.err
                  /\ out.retVal.t = args.o.t

\* a false comparison of Float32 scalars with retSame set has returned 0 as
\* a Float32
C14_Witness ==
    /\ ScalarDoOnDeclared
    /\ args.o.ot = "lte"
    /\ args.o.t = Float32
    /\ args.same
    /\ out.retVal = Scalar(Float32, Q(0))

(***************************************************************************)
(* Actions: the shape inferences of the reductions.                        *)
(***************************************************************************)
\* shapes of rank 0 to 3
ReduceShapes ==
    Shapes \cup {<<a, b, c>> : a \in 1..RDim, b \in 1..RDim, c \in 1..RDim}

\* the axis lists of a reduction, increasing or not, in range or not
Alongs == UNION {[1..k -> 0..MaxAxis] : k \in 0..MaxAlong}

InitReduce ==
    \E name \in {"sumOp.inferShape", "maxOp.inferShape"},
       n \in 0..MaxInputs, shape \in ReduceShapes, along \in Alongs :
        Calling(name,
                [along |-> along, inputs |-> [i \in 1..n |-> InputNode("t", shape)]],
                <<>>, <<>>)

SumInferShape ==
    /\ pc = "call" /\ op = "sumOp.inferShape"
    /\ out' = sumOpInferShape(args.along, args.inputs)
    /\ pc' = "done"
    /\ UNCHANGED <<op, args, heap, dv>>

MaxInferShape ==
    /\ pc = "call" /\ op = "maxOp.inferShape"
    /\ out' = maxOpInferShape(args.along, args.inputs)
    /\ pc' = "done"
    /\ UNCHANGED <<op, args, heap, dv>>

\* the shape of the sum of a tensor of shape s along the axes along: the
\* listed axes are dropped
Reduced(s, along) ==
    CASE Len(s) = 1 -> scalarShape
      [] Len(s) = 2 /\ along = <<0>> -> <<s[2]>>
      [] Len(s) = 2 /\ along = <<1>> -> <<s[1]>>
      [] OTHER -> scalarShape

\* a value of dtype t and shape shape counting from base
RampValue(t, shape, base) ==
    IF IsScalarShape(shape) THEN Scalar(t, Q(base))
    ELSE Tensor(t, shape, Ramp(TotalSize(shape), base))

\* the inputs of sumOp.DoDiff: a vector or matrix x with extents of at least
\* two, summed along some of its axes, and the sum y; each with a derivative
\* of its own shape
SumGraphs ==
    {[along |-> along, x |-> x, y |-> RampValue(x.t, Reduced(x.shape, along), 1)] :
        along \in {<<0>>, <<1>>, <<0, 1>>},
        x \in {RampValue(t, shape, 1) :
                  t \in FloatDtypes,
                  shape \in {<<n>> : n \in TLen..TLen + 1}
                      \cup {<<r, c>> : r \in TLen..TLen + 1, c \in TLen..TLen + 1}}}

InitSumDoDiff ==
    \E g \in {g \in SumGraphs : Len(g.along) <= Len(g.x.shape)
                                /\ g.along[Len(g.along)] < Len(g.x.shape)},
       xd \in 0..MaxD, yd \in 1..MaxBase, n \in 0..MaxInputs :
        LET d == <<dualValue(g.x, RampValue(g.x.t, g.x.shape, xd)),
                   dualValue(g.y, RampValue(g.y.t, g.y.shape, yd))>>
        IN  Calling("sumOp.DoDiff",
                    [along |-> g.along, inputs |-> [i \in 1..n |-> 1], output |-> 2,
                     dv |-> d], <<>>, d)

SumDoDiff ==
    /\ pc = "call" /\ op = "sumOp.DoDiff"
    /\ LET r == sumOpDoDiff(args.along, dv, args.inputs, args.output)
       IN  /\ out' = [err |-> r.err]
           /\ dv' = r.dv
    /\ pc' = "done"
    /\ UNCHANGED <<op, args, heap>>

InitReduceAll == InitReduce \/ InitSumDoDiff

NextReduce == SumInferShape \/ MaxInferShape \/ SumDoDiff

SpecReduce == InitReduceAll /\ [][NextReduce]_vars

\* the elements of a sequence
Range(seq) == {seq[i] : i \in 1..Len(seq)}

StrictlyIncreasing(a) == \A i \in 2..Len(a) : a[i] > a[i - 1]

\* the shape s with each axis listed in along set to 1
Collapsed(s, along) == [i \in 1..Len(s) |-> IF (i - 1) \in Range(along) THEN 1 ELSE s[i]]

\* the shape the reduction of an input of shape s along the axes along has
resultShape(s, along) ==
    IF Len(along) = Len(s) \/ (\A i \in 1..Len(s) : Collapsed(s, along)[i] = 1)
    THEN scalarShape
    ELSE Collapsed(s, along)

\* a call of sumOp.inferShape on one non-scalar input of rank 2 or more with
\* strictly increasing axes
SumOnMatrix ==
    /\ Done("sumOp.inferShape")
    /\ Len(args.inputs) = 1
    /\ Len(args.inputs[1].shape) >= 2
    /\ StrictlyIncreasing(args.along)

\* C15: on a non-scalar input of rank 2 or more with strictly increasing
\* axes, sumOp.inferShape returns an error when an axis is not below the rank
\* or more axes are listed than the rank; otherwise the scalar shape when all
\* axes are listed or every extent of the collapsed shape is 1, and otherwise
\* the input shape with each listed axis set to 1; the input node's shape is
\* never modified.
C15_SumShape ==
    SumOnMatrix =>
        LET s == args.inputs[1].shape
        IN  /\ out.in = s
            /\ IF \/ Len(args.along) > Len(s)
                  \/ \E a \in Range(args.along) : a >= Len(s)
               THEN out.err # "nil" /\ out.retVal = NilDimSizer
               ELSE out.err = "nil" /\ out.retVal = Shape(resultShape(s, args.along))

\* C16: the shape rule of Max mirrors that of Sum: maxOp.inferShape returns
\* the shape, or the error, that sumOp.inferShape returns for the same inputs
\* and axes.
C16_MaxMirrorsSum ==
    Done("maxOp.inferShape") =>
        /\ out.retVal = sumOpInferShape(args.along, args.inputs).retVal
        /\ out.err = sumOpInferShape(args.along, args.inputs).err

\* the gradient g of the sum along the axes along seen from element k of an
\* input of shape s: the element of g at the index of k without the reduced
\* axes
Upstream(g, s, along, k) ==
    CASE Len(s) = 2 /\ along = <<0>> -> g.data[((k - 1) % s[2]) + 1]
      [] Len(s) = 2 /\ along = <<1>> -> g.data[((k - 1) \div s[2]) + 1]
      [] OTHER -> g.data[1]

\* a call of sumOp.DoDiff on its one input
SumDiffCall == Done("sumOp.DoDiff") /\ Len(args.inputs) = 1

\* C18: sumOp.DoDiff repeats the output derivative along each reduced axis
\* with the extent of the input as count, so that it has the input's shape,
\* and adds it: afterwards the derivative of the input is its previous value
\* plus, in each element, the output derivative at the element's index
\* without the reduced axes; the call returns nil and leaves the output's
\* dual value as it was.
C18_SumGradientRepeated ==
    SumDiffCall =>
        LET prev == args.dv[1].d
            g == args.dv[2].d
        IN  /\ out.err = NilErr
            /\ dv[1].d = Tensor(prev.t, prev.shape,
                                [k \in 1..Len(prev.data) |->
                                    QAdd(prev.data[k],
                                         Upstream(g, prev.shape, args.along, k))])
            /\ dv[1].Value = args.dv[1].Value
            /\ dv[2] = args.dv[2]

(***************************************************************************)
(* Actions: maxOp.                                                         *)
(***************************************************************************)
\* strictly increasing axis lists over the axes of a rank-2 input
AxisLists == {<<>>, <<0>>, <<1>>, <<0, 1>>}

\* one Value of each kind and dtype
KindValues ==
    {Scalar(t, Q(1)) : t \in FloatDtypes}
        \cup {Tensor(t, <<TLen>>, [i \in 1..TLen |-> Q(i)]) : t \in FloatDtypes}

\* sequences of at most n elements of S
SeqsUpTo(S, n) == UNION {[1..k -> S] : k \in 0..n}

InitMax ==
    \/ \E inputs \in SeqsUpTo(KindValues, MaxInputs) :
          Calling("maxOp.Do", [inputs |-> inputs], <<>>, <<>>)
    \/ \E n \in 0..MaxInputs, shape \in Shapes, along \in AxisLists,
          eqOK \in BOOLEAN, mulOK \in BOOLEAN :
          Calling("maxOp.SymDiff",
                  [along |-> along,
                   inputs |-> [i \in 1..n |-> InputNode("t", shape)],
                   output |-> InputNode("output", scalarShape),
                   gradNode |-> InputNode("grad", scalarShape),
                   eqOK |-> eqOK, mulOK |-> mulOK], <<>>, <<>>)

MaxDo ==
    /\ pc = "call" /\ op = "maxOp.Do"
    /\ out' = maxOpDo(args.inputs)
    /\ pc' = "done"
    /\ UNCHANGED <<op, args, heap, dv>>

MaxSymDiff ==
    /\ pc = "call" /\ op = "maxOp.SymDiff"
    /\ out' = maxOpSymDiff(args.along, args.inputs, args.output, args.gradNode,
                           args.eqOK, args.mulOK)
    /\ pc' = "done"
    /\ UNCHANGED <<op, args, heap, dv>>

NextMax == MaxDo \/ MaxSymDiff

SpecMax == InitMax /\ [][NextMax]_vars

(***************************************************************************)
(* Claims on maxOp.                                                        *)
(***************************************************************************)
\* C9: maxOp.SymDiff with exactly one input succeeds whenever the two
\* Broadcast steps succeed: it returns exactly one gradient node, the
\* gradient multiplied by the equality mask of output against input, and
\* does not abort.
C9_SymDiffSucceeds ==
    (/\ Done("maxOp.SymDiff")
     /\ Len(args.inputs) = 1
     /\ args.eqOK /\ args.mulOK)
    => LET bcpat == leftAxes(0, Len(args.inputs[1].shape), args.along)
           eq == BroadcastNode("eq", args.output, args.inputs[1], bcpat)
       IN  /\ ~out.panic
           /\ out.err = NilErr
           /\ out.retVal = <<BroadcastNode("mul", args.gradNode, eq, bcpat)>>

\* C10 (as amended): maxOp.Do never returns a value; given exactly one input
\* it fails with NotYetImplemented, and given any other number of inputs it
\* fails with the arity GraphError.
C10_DoNeverReturnsValue ==
    Done("maxOp.Do")
    => /\ ~out.panic
       /\ out.retVal = NilValue
       /\ (Len(args.inputs) = 1 => out.err = Error("NotYetImplemented"))
       /\ (Len(args.inputs) # 1 => out.err = Error("GraphError"))

\* C10 (as claimed): maxOp.Do fails with NotImplemented for any inputs,
\* whatever their number or kind, and never returns a value.
C10_AlwaysNotImplemented ==
    Done("maxOp.Do")
    => /\ out.retVal = NilValue
       /\ out.err = Error("NotYetImplemented")

\* C10 witness: a forward evaluation of Max on one tensor has failed with
\* NotYetImplemented.
C10_Witness ==
    /\ Done("maxOp.Do")
    /\ Len(args.inputs) = 1
    /\ IsTensorValue(args.inputs[1])
    /\ out.err = Error("NotYetImplemented")
    /\ out.retVal = NilValue

====
